---------------------------- MODULE Spec2Model ----------------------------
(***************************************************************************)
(* DST Submittals Generator: structure generation, customization merge and *)
(* final PDF assembly.                                                     *)
(*                                                                         *)
(* Strings are sequences of one-character strings, so that the filename    *)
(* and tag manipulations of the Python code (splitext, replace, zfill,     *)
(* substring tests, lexicographic sort keys) are computed, not assumed.    *)
(***************************************************************************)
EXTENDS Integers, Sequences, FiniteSets, TLC

(***************************************************************************)
(* Characters, in code point order (Python compares str by code point).    *)
(***************************************************************************)
Chars ==
    << " ", "$", "-", ".", "/",
       "0", "1", "2", "3", "4", "5", "6", "7", "8", "9",
       "A", "B", "C", "D", "E", "F", "G", "H", "I", "J", "K", "L", "M",
       "N", "O", "P", "Q", "R", "S", "T", "U", "V", "W", "X", "Y", "Z",
       "_",
       "a", "b", "c", "d", "e", "f", "g", "h", "i", "j", "k", "l", "m",
       "n", "o", "p", "q", "r", "s", "t", "u", "v", "w", "x", "y", "z",
       "|" >>

CharSet == { Chars[i] : i \in 1..Len(Chars) }

Ord == [ c \in CharSet |-> CHOOSE i \in 1..Len(Chars) : Chars[i] = c ]

Digits == { "0", "1", "2", "3", "4", "5", "6", "7", "8", "9" }

UpperLetters ==
    << "A", "B", "C", "D", "E", "F", "G", "H", "I", "J", "K", "L", "M",
       "N", "O", "P", "Q", "R", "S", "T", "U", "V", "W", "X", "Y", "Z" >>

LowerLetters ==
    << "a", "b", "c", "d", "e", "f", "g", "h", "i", "j", "k", "l", "m",
       "n", "o", "p", "q", "r", "s", "t", "u", "v", "w", "x", "y", "z" >>

LowerChar ==
    [ c \in CharSet |->
        IF \E i \in 1..Len(UpperLetters) : UpperLetters[i] = c
        THEN LowerLetters[CHOOSE i \in 1..Len(UpperLetters) : UpperLetters[i] = c]
        ELSE c ]

UpperChar ==
    [ c \in CharSet |->
        IF \E i \in 1..Len(LowerLetters) : LowerLetters[i] = c
        THEN UpperLetters[CHOOSE i \in 1..Len(LowerLetters) : LowerLetters[i] = c]
        ELSE c ]

(* str.lower() / str.upper() *)
Lower(s) == [ i \in 1..Len(s) |-> LowerChar[s[i]] ]
Upper(s) == [ i \in 1..Len(s) |-> UpperChar[s[i]] ]

(* a < b on str: lexicographic by code point, a proper prefix is smaller *)
StrLt(a, b) ==
    LET n == IF Len(a) < Len(b) THEN Len(a) ELSE Len(b)
        differ == { i \in 1..n : a[i] # b[i] }
        k == CHOOSE i \in differ : \A j \in differ : i <= j
    IN  IF differ = { } THEN Len(a) < Len(b) ELSE Ord[a[k]] < Ord[b[k]]

(* the indices at which p occurs in s *)
Occurrences(s, p) ==
    { i \in 1..(Len(s) - Len(p) + 1) : SubSeq(s, i, i + Len(p) - 1) = p }

(* p in s *)
Contains(s, p) ==
    \E i \in 1..(Len(s) - Len(p) + 1) : SubSeq(s, i, i + Len(p) - 1) = p

(* s.find(p) + 1, and 0 when p does not occur *)
Find(s, p) ==
    LET hits == Occurrences(s, p)
    IN  IF hits = { } THEN 0 ELSE CHOOSE i \in hits : \A j \in hits : i <= j

StartsWith(s, p) == Len(p) <= Len(s) /\ SubSeq(s, 1, Len(p)) = p
EndsWith(s, p) == Len(p) <= Len(s) /\ SubSeq(s, Len(s) - Len(p) + 1, Len(s)) = p

(* s.split(p)[0] *)
SplitFirst(s, p) ==
    LET k == Find(s, p)
    IN  IF k = 0 THEN s ELSE SubSeq(s, 1, k - 1)

(* s.replace(old, new), old not empty *)
RECURSIVE Replace(_, _, _)
Replace(s, old, new) ==
    IF Len(s) < Len(old) THEN s
    ELSE IF SubSeq(s, 1, Len(old)) = old
         THEN new \o Replace(SubSeq(s, Len(old) + 1, Len(s)), old, new)
         ELSE << s[1] >> \o Replace(Tail(s), old, new)

(* s.lstrip(cs), s.rstrip(cs), s.strip() with cs a set of characters *)
RECURSIVE LStripChars(_, _)
LStripChars(s, cs) ==
    IF s # << >> /\ s[1] \in cs THEN LStripChars(Tail(s), cs) ELSE s

RECURSIVE RStripChars(_, _)
RStripChars(s, cs) ==
    IF s # << >> /\ s[Len(s)] \in cs
    THEN RStripChars(SubSeq(s, 1, Len(s) - 1), cs) ELSE s

Whitespace == { " " }
Strip(s) == LStripChars(RStripChars(s, Whitespace), Whitespace)

(* os.path.splitext(name): the extension starts at the last dot, unless    *)
(* only dots precede it                                                    *)
LastDot(s) ==
    IF \E i \in 1..Len(s) : s[i] = "."
    THEN CHOOSE i \in 1..Len(s) : s[i] = "." /\ \A j \in (i + 1)..Len(s) : s[j] # "."
    ELSE 0

HasExt(s) == LastDot(s) > 0 /\ \E j \in 1..(LastDot(s) - 1) : s[j] # "."
SplitextRoot(s) == IF HasExt(s) THEN SubSeq(s, 1, LastDot(s) - 1) ELSE s
SplitextExt(s) == IF HasExt(s) THEN SubSeq(s, LastDot(s), Len(s)) ELSE << >>

(* s.zfill(width): zeros go after a leading sign *)
RECURSIVE Zeros(_)
Zeros(n) == IF n <= 0 THEN << >> ELSE << "0" >> \o Zeros(n - 1)

ZFill(s, width) ==
    IF Len(s) >= width THEN s
    ELSE IF s # << >> /\ s[1] = "-"
         THEN << "-" >> \o Zeros(width - Len(s)) \o Tail(s)
         ELSE Zeros(width - Len(s)) \o s

(* number of leading decimal digits of s *)
RECURSIVE LeadingDigits(_)
LeadingDigits(s) ==
    IF s # << >> /\ s[1] \in Digits THEN 1 + LeadingDigits(Tail(s)) ELSE 0

(* re.sub(r'^\d+' + c, '', s) for a one-character class c *)
StripNumericPrefix(s, cs) ==
    LET k == LeadingDigits(s)
    IN  IF k >= 1 /\ Len(s) > k /\ s[k + 1] \in cs
        THEN SubSeq(s, k + 2, Len(s))
        ELSE s

(* re.sub(r'\s+', ' ', s) *)
RECURSIVE CollapseSpaces(_)
CollapseSpaces(s) ==
    IF s = << >> THEN s
    ELSE IF s[1] \in Whitespace
         THEN << " " >> \o CollapseSpaces(LStripChars(s, Whitespace))
         ELSE << s[1] >> \o CollapseSpaces(Tail(s))

(* any(k in s for k in ks) *)
ContainsAny(s, ks) == \E k \in ks : Contains(s, k)

(***************************************************************************)
(* Python values.  None is a sequence that is no string of characters, so  *)
(* that it can be compared with strings; "if x:" is Truthy(x).             *)
(***************************************************************************)
None == << "None" >>
Truthy(s) == s # None /\ s # << >>

(* dict.get(key, default) on a record *)
Get(d, key, default) == IF key \in DOMAIN d THEN d[key] ELSE default

(* sorted(s, key=...) with Lt the order of the keys: stable *)
StableSort(s, Lt(_, _)) ==
    LET n == Len(s)
        Before(j, i) == Lt(s[j], s[i]) \/ (~Lt(s[i], s[j]) /\ j < i)
        rank == [ i \in 1..n |-> Cardinality({ j \in 1..n : Before(j, i) }) + 1 ]
    IN  [ r \in 1..n |-> s[CHOOSE i \in 1..n : rank[i] = r] ]

(***************************************************************************)
(* Words of the filenames and tags used as inputs.                         *)
(***************************************************************************)
TagKeyWidth == 10

S_AHU == << "A", "H", "U", "-" >>
S_MAU == << "M", "A", "U", "-" >>
S_CS == << "C", "S" >>
S_Sep == << " ", "-", " " >>
S_TechnicalDataSheet ==
    << "T", "e", "c", "h", "n", "i", "c", "a", "l", " ",
       "D", "a", "t", "a", " ", "S", "h", "e", "e", "t" >>
S_ItemSummary ==
    << "I", "t", "e", "m", " ", "S", "u", "m", "m", "a", "r", "y" >>
S_FanCurve == << "F", "a", "n", " ", "C", "u", "r", "v", "e" >>
S_Drawing == << "D", "r", "a", "w", "i", "n", "g" >>
S_PreciseLine == << "P", "r", "e", "c", "i", "s", "e", "L", "i", "n", "e" >>
S_Drawings == S_Drawing \o << "s" >>
S_Supply == << "S", "u", "p", "p", "l", "y" >>
S_Return == << "R", "e", "t", "u", "r", "n" >>
S_Exhaust == << "E", "x", "h", "a", "u", "s", "t" >>
S_UnitCADFile == << "U", "n", "i", "t", "C", "A", "D", "F", "i", "l", "e" >>
S_Widget == << "W", "i", "d", "g", "e", "t" >>
S_CutSheets == << "C", "U", "T", " ", "S", "H", "E", "E", "T", "S" >>
S_ConvertedPdfs ==
    << "c", "o", "n", "v", "e", "r", "t", "e", "d", "_", "p", "d", "f", "s" >>
S_Hidden == << "H", "i", "d", "d", "e", "n" >>
S_Custom == << "C", "u", "s", "t", "o", "m" >>
Ext_docx == << ".", "d", "o", "c", "x" >>
Ext_doc == << ".", "d", "o", "c" >>
Ext_jpg == << ".", "j", "p", "g" >>
Ext_jpeg == << ".", "j", "p", "e", "g" >>
Ext_png == << ".", "p", "n", "g" >>
Ext_gif == << ".", "g", "i", "f" >>
Ext_bmp == << ".", "b", "m", "p" >>
Ext_pdf == << ".", "p", "d", "f" >>

(* "a b" -> "a_b" *)
Underscored(s) == Replace(s, << " " >>, << "_" >>)

(***************************************************************************)
(* enhanced_doc_extractor.py                                               *)
(***************************************************************************)
PricingKeywords ==
    { Lower(S_ItemSummary),
      << "p", "r", "i", "c", "i", "n", "g" >>,
      << "c", "o", "s", "t" >>,
      << "p", "r", "i", "c", "e" >>,
      << "q", "u", "o", "t", "e" >> }

ImageExts == { Ext_jpg, Ext_jpeg, Ext_png, Ext_gif, Ext_bmp }

(* has_pricing_content(file_path), for a file of the directory: f.dollar   *)
(* says whether the text of the document holds a '$', f.readable whether   *)
(* the document can be opened and parsed                                   *)
has_pricing_content(f) ==
    LET ext == Lower(SplitextExt(f.name))
        by_name == ContainsAny(Lower(f.name), PricingKeywords)
    IN  IF ext \in ImageExts THEN by_name
        ELSE IF ext = Ext_docx \/ ext = Ext_doc
             THEN (IF f.readable THEN f.dollar ELSE by_name)
        ELSE IF ext = Ext_pdf THEN by_name
        ELSE FALSE

classify_file_type(filename) ==
    LET normalized_name ==
            Replace(Replace(Lower(filename), << "_" >>, << " " >>),
                    << "-" >>, << " " >>)
        clean_name == StripNumericPrefix(normalized_name, Whitespace)
    IN  IF \/ Contains(clean_name, Lower(S_TechnicalDataSheet))
           \/ Contains(clean_name, << "t", "e", "c", "h", " ", "d", "a", "t", "a" >>)
        THEN "Technical Data Sheet"
        ELSE IF Contains(clean_name, Lower(S_FanCurve)) THEN "Fan Curve"
        ELSE IF Contains(clean_name, Lower(S_Drawing)) THEN "Drawing"
        ELSE IF \/ Contains(clean_name, << "c", "u", "t", " ", "s", "h", "e", "e", "t" >>)
                \/ StartsWith(Upper(filename), S_CS)
        THEN "Cut Sheet"
        ELSE IF Contains(clean_name, Lower(S_ItemSummary)) THEN "Item Summary"
        ELSE "Other"

create_display_title(filename) ==
    LET n1 == StripNumericPrefix(SplitextRoot(filename), { "_" })
        n2 == Replace(Replace(n1, << "_" >>, << " " >>), << "-" >>, << " " >>)
        n3 == IF StartsWith(Upper(n2), << "C", "S", " " >>)
              THEN SubSeq(n2, 4, Len(n2)) ELSE n2
    IN  Strip(CollapseSpaces(n3))

(* the ranks of the technical data sheet and the fan curve exchanged *)
fan_curve_first_priority(file_type) ==
    CASE file_type = "Technical Data Sheet" -> 2
      [] file_type = "Fan Curve" -> 1
      [] file_type = "Drawing" -> 3
      [] file_type = "Other" -> 4
      [] file_type = "Item Summary" -> 5
      [] OTHER -> 4

get_file_order_priority(file_type) ==
    CASE file_type = "Technical Data Sheet" -> 1
      [] file_type = "Fan Curve" -> 2
      [] file_type = "Drawing" -> 3
      [] file_type = "Other" -> 4
      [] file_type = "Item Summary" -> 5
      [] OTHER -> 4

should_check_pricing_content(filename, use_filename_tags) ==
    IF ~use_filename_tags THEN TRUE
    ELSE \/ Contains(Lower(filename), Lower(S_ItemSummary))
         \/ Contains(Lower(filename), Underscored(Lower(S_ItemSummary)))

(***************************************************************************)
(* tag_extractor.py: TagExtractor                                          *)
(*                                                                         *)
(* A file of the documents directory is a record                           *)
(*   [name, dollar, readable, ctag, pages]                                 *)
(* name: its filename; dollar: its text holds a '$'; readable: it can be   *)
(* opened and parsed; ctag: the first tag extract_tags_from_text finds in  *)
(* its text (None when there is none); pages: the page count of its PDF.   *)
(* A directory is a set of files with distinct names; a listing is the     *)
(* order in which the operating system enumerates it.                      *)
(***************************************************************************)
FileNamed(dir, name) == CHOOSE f \in dir : f.name = name

(* glob.glob(os.path.join(docs_path, prefix + "*" + suffix)) *)
Glob(listing, prefix, suffix) ==
    SelectSeq(listing,
              LAMBDA n : /\ Len(n) >= Len(prefix) + Len(suffix)
                         /\ StartsWith(n, prefix)
                         /\ EndsWith(n, suffix)
                         /\ n[1] # ".")

dash_separated_patterns ==
    << S_Sep \o S_PreciseLine \o << " " >> \o S_Drawings,
       S_Sep \o S_TechnicalDataSheet,
       S_Sep \o S_ItemSummary,
       S_Sep \o S_Drawing,
       S_Sep \o S_FanCurve,
       S_Sep \o S_Supply,
       S_Sep \o S_Return,
       S_Sep \o S_Exhaust >>

underscore_suffixes ==
    << << "_" >> \o S_PreciseLine \o << "_" >> \o S_Drawings,
       << "_", "-", "_" >> \o Underscored(S_TechnicalDataSheet),
       << "_", "-", "_" >> \o Underscored(S_ItemSummary),
       << "_", "-", "_" >> \o S_Drawing,
       << "_", "-", "_" >> \o Underscored(S_FanCurve),
       << "_" >> \o Underscored(S_TechnicalDataSheet),
       << "_" >> \o Underscored(S_ItemSummary),
       << "_" >> \o S_Drawing,
       << "_" >> \o Underscored(S_FanCurve),
       << "_" >> \o S_PreciseLine,
       << "_" >> \o S_UnitCADFile >>

separators ==
    << << "_" >> \o S_Supply, << "_" >> \o S_Return, << "_" >> \o S_Exhaust >>

(* the index of the first pattern of pats that the test accepts; 0 if none *)
FirstIndex(pats, Test(_)) ==
    LET hits == { i \in 1..Len(pats) : Test(pats[i]) }
    IN  IF hits = { } THEN 0 ELSE CHOOSE i \in hits : \A j \in hits : i <= j

(* TagExtractor.extract_tag_from_filename *)
extract_tag_from_filename(filename) ==
    LET base_name == SplitextRoot(filename)
        (* the loops return at the first pattern whose prefix is not blank *)
        DashHit(p) == Contains(base_name, p) /\ Strip(SplitFirst(base_name, p)) # << >>
        d == FirstIndex(dash_separated_patterns, DashHit)
        UnderHit(p) == Contains(base_name, p) /\ Strip(SplitFirst(base_name, p)) # << >>
        u == FirstIndex(underscore_suffixes, UnderHit)
        SepHit(p) == EndsWith(base_name, p)
                     /\ Strip(SubSeq(base_name, 1, Len(base_name) - Len(p))) # << >>
        e == FirstIndex(separators, SepHit)
    IN  IF d > 0 THEN Strip(SplitFirst(base_name, dash_separated_patterns[d]))
        ELSE IF u > 0
        THEN LET tag == Strip(RStripChars(SplitFirst(base_name, underscore_suffixes[u]),
                                          { "_", "-" }))
             IN  IF tag # << >> THEN tag ELSE None
        ELSE IF e > 0
        THEN Strip(SubSeq(base_name, 1, Len(base_name) - Len(separators[e])))
        ELSE IF Strip(base_name) # << >> THEN base_name ELSE None

(* extract_from_docx_python_docx / extract_from_docx_docx2txt /            *)
(* extract_from_doc_strings / extract_from_doc_olefile: tags[0] of the     *)
(* text of the file, None when it cannot be read or holds no tag           *)
extract_from_content(f) == IF f.readable THEN f.ctag ELSE None

(* the first file of names, in their order, whose content yields a tag *)
FirstContentTag(dir, names) ==
    LET i == FirstIndex(names, LAMBDA n : Truthy(extract_from_content(FileNamed(dir, n))))
    IN  IF i > 0 THEN extract_from_content(FileNamed(dir, names[i])) ELSE None

(* TagExtractor.find_tag_by_filename_matching *)
find_tag_by_filename_matching(dir, listing, target_filename) ==
    LET k == LeadingDigits(target_filename)
        has_prefix == k >= 1 /\ Len(target_filename) > k /\ target_filename[k + 1] = "_"
        target_prefix == SubSeq(target_filename, 1, k) \o << "_" >>
        docx_files == Glob(listing, target_prefix, Ext_docx)
        doc_files == Glob(listing, target_prefix, Ext_doc)
    IN  IF ~has_prefix THEN None
        ELSE IF Truthy(FirstContentTag(dir, docx_files))
             THEN FirstContentTag(dir, docx_files)
             ELSE FirstContentTag(dir, doc_files)

(* TagExtractor.extract_tag_from_file *)
extract_tag_from_file(dir, listing, filename, use_filename_tags) ==
    LET file_ext == Lower(SplitextExt(filename))
    IN  IF use_filename_tags THEN extract_tag_from_filename(filename)
        ELSE IF file_ext = Ext_docx \/ file_ext = Ext_doc
             THEN extract_from_content(FileNamed(dir, filename))
        ELSE IF file_ext \in { Ext_jpg, Ext_jpeg, Ext_png }
             THEN find_tag_by_filename_matching(dir, listing, filename)
        ELSE None

(* sorted(doc_files + docx_files + image_files) *)
SortedFiles(files) == StableSort(files, StrLt)

(* TagExtractor.extract_all_tags: the tag mapping, a dict filename -> tag  *)
(* in insertion order, as the sequence of its entries                      *)
extract_all_tags(dir, listing, use_filename_tags) ==
    LET doc_files == Glob(listing, << >>, Ext_doc)
        docx_files == Glob(listing, << >>, Ext_docx)
        image_files == Glob(listing, << >>, Ext_jpg) \o Glob(listing, << >>, Ext_jpeg)
                       \o Glob(listing, << >>, Ext_png)
        all_files == SortedFiles(doc_files \o docx_files \o image_files)
    IN  [ i \in 1..Len(all_files) |->
            [ filename |-> all_files[i],
              tag |-> extract_tag_from_file(dir, listing, all_files[i],
                                            use_filename_tags) ] ]

(***************************************************************************)
(* enhanced_doc_extractor.py: enhance_tag_mapping, merge_user_customizations *)
(***************************************************************************)
os_path_join(a, b) == a \o << "/" >> \o b

(* the dict tag_groups, in insertion order: << [tag, files] >> *)
RECURSIVE tag_groups_of(_, _)
tag_groups_of(tag_mapping, groups) ==
    IF tag_mapping = << >> THEN groups
    ELSE LET e == Head(tag_mapping)
             hit == { i \in 1..Len(groups) : groups[i].tag = e.tag }
         IN  IF ~Truthy(e.tag) THEN tag_groups_of(Tail(tag_mapping), groups)
             ELSE IF hit = { }
             THEN tag_groups_of(Tail(tag_mapping),
                                Append(groups, [ tag |-> e.tag, files |-> << e.filename >> ]))
             ELSE tag_groups_of(Tail(tag_mapping),
                                [ groups EXCEPT ![CHOOSE i \in hit : TRUE].files =
                                      Append(@, e.filename) ])

(* key=lambda x: (x.startswith('AHU-'), x.replace('AHU-','').replace('MAU-','').zfill(10)) *)
TagSortKey(x) ==
    [ ahu |-> StartsWith(x, S_AHU),
      num |-> ZFill(Replace(Replace(x, S_AHU, << >>), S_MAU, << >>), TagKeyWidth) ]

TagKeyLt(a, b) ==
    LET ka == TagSortKey(a)
        kb == TagSortKey(b)
    IN  \/ ~ka.ahu /\ kb.ahu
        \/ ka.ahu = kb.ahu /\ StrLt(ka.num, kb.num)

sorted_tags_of(groups) ==
    StableSort([ i \in 1..Len(groups) |-> groups[i].tag ], TagKeyLt)

(* key=lambda x: (x['priority'], x['filename']) *)
FileInfoLt(a, b) ==
    \/ a.priority < b.priority
    \/ a.priority = b.priority /\ StrLt(a.filename, b.filename)

(* a faulty counter that leaves a gap after every item *)
SkippedPosition(position) == position + 2

(* position += 1 *)
NextPosition(position) == position + 1

TitlePageItem(tag, position) ==
    [ type |-> "title_page", tag |-> tag, title |-> tag,
      position |-> position, include |-> TRUE ]

DocumentItem(tag, file_data, position, no_pricing_filter, is_pricing_file) ==
    [ type |-> "document",
      tag |-> tag,
      filename |-> file_data.filename,
      display_title |-> file_data.display_title,
      file_type |-> file_data.file_type,
      converted_path |-> S_ConvertedPdfs \o << "/" >>
                         \o SplitextRoot(file_data.filename) \o Ext_pdf,
      position |-> position,
      include |-> (no_pricing_filter \/ ~is_pricing_file),
      pricing_file |-> is_pricing_file ]

CutSheetItem(docs_path, filename, position) ==
    [ type |-> "cut_sheet",
      tag |-> S_CutSheets,
      filename |-> filename,
      display_title |-> create_display_title(filename),
      converted_path |-> os_path_join(docs_path, filename),
      position |-> position,
      include |-> TRUE ]

(* the loop "for file_data in file_info"; st = [pdf_structure, position] *)
RECURSIVE AddDocuments(_, _, _, _, _)
AddDocuments(file_info, tag, files_with_pricing_info, no_pricing_filter, st) ==
    IF file_info = << >> THEN st
    ELSE LET file_data == Head(file_info)
             is_pricing_file == file_data.filename \in files_with_pricing_info
             item == DocumentItem(tag, file_data, st.position, no_pricing_filter,
                                  is_pricing_file)
         IN  AddDocuments(Tail(file_info), tag, files_with_pricing_info,
                          no_pricing_filter,
                          [ pdf_structure |-> Append(st.pdf_structure, item),
                            position |-> NextPosition(st.position) ])

(* the loop "for tag in sorted_tags" *)
RECURSIVE AddTags(_, _, _, _, _, _)
AddTags(tags, groups, dir, no_pricing_filter, use_filename_tags, st) ==
    IF tags = << >> THEN st
    ELSE LET tag == Head(tags)
             files_for_tag == (CHOOSE g \in { groups[i] : i \in 1..Len(groups) } :
                                  g.tag = tag).files
             files_with_pricing_info ==
                 { files_for_tag[i] : i \in
                     { j \in 1..Len(files_for_tag) :
                         /\ should_check_pricing_content(files_for_tag[j], use_filename_tags)
                         /\ has_pricing_content(FileNamed(dir, files_for_tag[j])) } }
             file_info ==
                 StableSort([ i \in 1..Len(files_for_tag) |->
                                [ filename |-> files_for_tag[i],
                                  file_type |-> classify_file_type(files_for_tag[i]),
                                  display_title |-> create_display_title(files_for_tag[i]),
                                  priority |-> get_file_order_priority(
                                                   classify_file_type(files_for_tag[i])) ] ],
                            FileInfoLt)
             titled == [ pdf_structure |-> Append(st.pdf_structure,
                                                  TitlePageItem(tag, st.position)),
                         position |-> NextPosition(st.position) ]
         IN  AddTags(Tail(tags), groups, dir, no_pricing_filter, use_filename_tags,
                     AddDocuments(file_info, tag, files_with_pricing_info,
                                  no_pricing_filter, titled))

(* the loop "for cs_file in sorted(cs_files)" *)
RECURSIVE AddCutSheets(_, _, _)
AddCutSheets(cs_files, docs_path, st) ==
    IF cs_files = << >> THEN st
    ELSE AddCutSheets(Tail(cs_files), docs_path,
                      [ pdf_structure |-> Append(st.pdf_structure,
                                                 CutSheetItem(docs_path, Head(cs_files),
                                                              st.position)),
                        position |-> NextPosition(st.position) ])

CountType(pdf_structure, t) ==
    Cardinality({ i \in 1..Len(pdf_structure) : pdf_structure[i].type = t })

StructureMetadata(pdf_structure, no_pricing_filter) ==
    [ total_tags |-> CountType(pdf_structure, "title_page"),
      total_documents |-> CountType(pdf_structure, "document"),
      total_cut_sheets |-> CountType(pdf_structure, "cut_sheet"),
      total_items |-> Len(pdf_structure),
      processing_complete |-> TRUE,
      pricing_filter_enabled |-> ~no_pricing_filter ]

(* enhance_tag_mapping without the final merge *)
fresh_structure(tag_mapping, dir, listing, docs_path, no_pricing_filter, use_filename_tags) ==
    LET tag_groups == tag_groups_of(tag_mapping, << >>)
        sorted_tags == sorted_tags_of(tag_groups)
        tagged == AddTags(sorted_tags, tag_groups, dir, no_pricing_filter,
                          use_filename_tags,
                          [ pdf_structure |-> << >>, position |-> 1 ])
        cs_files == Glob(listing, S_CS, Ext_pdf)
        all == IF cs_files # << >>
               THEN AddCutSheets(SortedFiles(cs_files), docs_path,
                        [ pdf_structure |-> Append(tagged.pdf_structure,
                                                   TitlePageItem(S_CutSheets, tagged.position)),
                          position |-> NextPosition(tagged.position) ])
               ELSE tagged
    IN  [ pdf_structure |-> all.pdf_structure,
          metadata |-> StructureMetadata(all.pdf_structure, no_pricing_filter),
          tag_mapping |-> tag_mapping,
          tag_groups |-> tag_groups ]

(* f"{item.get('type', '')}|{item.get('tag', '')}|{item.get('filename', '')}" *)
TypeText(t) ==
    CASE t = "title_page" -> << "t", "i", "t", "l", "e", "_", "p", "a", "g", "e" >>
      [] t = "document" -> << "d", "o", "c", "u", "m", "e", "n", "t" >>
      [] t = "cut_sheet" -> << "c", "u", "t", "_", "s", "h", "e", "e", "t" >>
      [] OTHER -> << >>

Identifier(item) ==
    TypeText(Get(item, "type", "")) \o << "|" >> \o Get(item, "tag", << >>)
        \o << "|" >> \o Get(item, "filename", << >>)

(* d[key] = value on a dict that may lack the key *)
SetItem(d, key, value) ==
    [ k \in DOMAIN d \cup { key } |-> IF k = key THEN value ELSE d[k] ]

(* a dict that is None or empty *)
NoDict == [ k \in { } |-> TRUE ]
IsDict(d) == DOMAIN d # { }

(* existing_lookup.get(identifier): the last prior item with the identifier *)
existing_lookup(existing_structure, identifier) ==
    LET hit == { i \in 1..Len(existing_structure) :
                    Identifier(existing_structure[i]) = identifier }
    IN  IF hit = { } THEN NoDict
        ELSE existing_structure[CHOOSE i \in hit : \A j \in hit : j <= i]

(* faulty merges of one item: the prior item replaces the fresh one; a     *)
(* matched item is always shown                                            *)
prior_item_kept(fresh_item, existing_item) ==
    IF IsDict(existing_item) THEN existing_item ELSE fresh_item

include_forced(fresh_item, existing_item) ==
    IF IsDict(existing_item) THEN SetItem(fresh_item, "include", TRUE) ELSE fresh_item

(* the body of "for fresh_item in fresh_structure" *)
merge_item(fresh_item, existing_item) ==
    LET t1 == IF /\ "display_title" \in DOMAIN existing_item
                 /\ existing_item.display_title # Get(fresh_item, "display_title", None)
              THEN SetItem(fresh_item, "display_title", existing_item.display_title)
              ELSE fresh_item
        t2 == IF /\ "title" \in DOMAIN existing_item
                 /\ existing_item.title # Get(fresh_item, "title", None)
              THEN SetItem(t1, "title", existing_item.title)
              ELSE t1
        t3 == IF "include" \in DOMAIN existing_item
              THEN SetItem(t2, "include", existing_item.include)
              ELSE t2
    IN  IF IsDict(existing_item) THEN t3 ELSE fresh_item

(* a faulty merge that keeps the prior items the fresh run no longer has *)
merge_keeping_removed(fresh_data, existing_data) ==
    LET fresh_items == Get(fresh_data, "pdf_structure", << >>)
        Removed(e) == \A i \in 1..Len(fresh_items) :
                          Identifier(fresh_items[i]) # Identifier(e)
    IN  SetItem(fresh_data, "pdf_structure",
                fresh_items \o SelectSeq(Get(existing_data, "pdf_structure", << >>),
                                         Removed))

merge_user_customizations(fresh_data, existing_data) ==
    LET existing_structure == Get(existing_data, "pdf_structure", << >>)
        fresh_items == Get(fresh_data, "pdf_structure", << >>)
        merged_structure ==
            [ i \in 1..Len(fresh_items) |->
                merge_item(fresh_items[i],
                           existing_lookup(existing_structure, Identifier(fresh_items[i]))) ]
        existing_metadata == Get(existing_data, "metadata", NoDict)
        merged_metadata ==
            IF "last_updated" \in DOMAIN existing_metadata
            THEN SetItem(SetItem(fresh_data.metadata, "last_updated",
                                 existing_metadata.last_updated),
                         "user_customized", TRUE)
            ELSE fresh_data.metadata
    IN  [ SetItem(fresh_data, "pdf_structure", merged_structure)
            EXCEPT !.metadata = merged_metadata ]

enhance_tag_mapping(tag_mapping, dir, listing, docs_path, no_pricing_filter, use_filename_tags, existing_user_edits) ==
    LET enhanced_data == fresh_structure(tag_mapping, dir, listing, docs_path,
                                         no_pricing_filter, use_filename_tags)
    IN  IF IsDict(existing_user_edits)
        THEN merge_user_customizations(enhanced_data, existing_user_edits)
        ELSE enhanced_data

(***************************************************************************)
(* web_interface.py: the uploaded files of a request                       *)
(***************************************************************************)
(* werkzeug.utils.secure_filename on ASCII names: whitespace runs become   *)
(* "_", characters outside [A-Za-z0-9_.-] are dropped, leading and         *)
(* trailing "." and "_" are stripped                                       *)
FilenameChars ==
    Digits \cup { UpperLetters[i] : i \in 1..Len(UpperLetters) }
        \cup { LowerLetters[i] : i \in 1..Len(LowerLetters) } \cup { "_", ".", "-" }

secure_filename(filename) ==
    LET spaced == Replace(filename, << "/" >>, << " " >>)
        joined == Replace(CollapseSpaces(Strip(spaced)), << " " >>, << "_" >>)
        kept == SelectSeq(joined, LAMBDA c : c \in FilenameChars)
    IN  LStripChars(RStripChars(kept, { ".", "_" }), { ".", "_" })

(* allowed_file *)
ALLOWED_EXTENSIONS == { Ext_doc, Ext_docx, Ext_pdf, Ext_jpg, Ext_jpeg, Ext_png }
allowed_file(filename) ==
    /\ LastDot(filename) > 0
    /\ Lower(SubSeq(filename, LastDot(filename), Len(filename))) \in ALLOWED_EXTENSIONS

(* the names of the files a client may upload *)
N_AHU1_TDS ==
    << "A", "H", "U", "-", "1", " ", "-", " ", "T", "e", "c", "h", "n", "i",
       "c", "a", "l", " ", "D", "a", "t", "a", " ", "S", "h", "e", "e", "t",
       ".", "d", "o", "c", "x" >>
N_MAU5_ItemSummary ==
    << "M", "A", "U", "-", "5", " ", "-", " ", "I", "t", "e", "m", " ", "S",
       "u", "m", "m", "a", "r", "y", ".", "d", "o", "c", "x" >>
N_CS_Widget ==
    << "C", "S", "_", "W", "i", "d", "g", "e", "t", ".", "p", "d", "f" >>
N_10_TDS ==
    << "1", "0", "_", "T", "e", "c", "h", "n", "i", "c", "a", "l", " ", "D",
       "a", "t", "a", " ", "S", "h", "e", "e", "t", ".", "d", "o", "c", "x" >>
N_10_ItemSummary ==
    << "1", "0", "_", "I", "t", "e", "m", " ", "S", "u", "m", "m", "a", "r",
       "y", ".", "d", "o", "c", "x" >>
N_10_FanCurve ==
    << "1", "0", "_", "F", "a", "n", " ", "C", "u", "r", "v", "e", ".", "j",
       "p", "g" >>

(* a client's file: its name, whether its text holds a '$', whether it can *)
(* be parsed, the first tag found in its text, the pages of its PDF        *)
File(name, dollar, readable, ctag, pages) ==
    [ name |-> name, dollar |-> dollar, readable |-> readable, ctag |-> ctag,
      pages |-> pages ]

Tag_AHU1 == S_AHU \o << "1" >>
Tag_AHU10 == S_AHU \o << "1", "0" >>
Tag_MAU5 == S_MAU \o << "5" >>

F_AHU1_TDS == File(N_AHU1_TDS, FALSE, TRUE, Tag_AHU1, 2)
F_MAU5_ItemSummary == File(N_MAU5_ItemSummary, TRUE, TRUE, Tag_MAU5, 1)
F_CS_Widget == File(N_CS_Widget, FALSE, FALSE, None, 2)
F_10_TDS == File(N_10_TDS, FALSE, TRUE, Tag_AHU10, 2)
F_10_ItemSummary == File(N_10_ItemSummary, TRUE, TRUE, Tag_AHU1, 1)
F_10_FanCurve == File(N_10_FanCurve, FALSE, FALSE, None, 1)

(* the files written by "file.save(os.path.join(temp_dir, filename))" for  *)
(* the uploads in their order: a later upload overwrites an earlier one of *)
(* the same secured name                                                   *)
RECURSIVE SaveUploads(_, _)
SaveUploads(files, dir) ==
    IF files = << >> THEN dir
    ELSE LET file == Head(files)
             filename == secure_filename(file.name)
             saved == [ file EXCEPT !.name = filename ]
         IN  IF file.name # << >> /\ allowed_file(file.name)
             THEN SaveUploads(Tail(files),
                              { f \in dir : f.name # filename } \cup { saved })
             ELSE SaveUploads(Tail(files), dir)

(***************************************************************************)
(* web_interface.py: the requests of a session and the persisted structure *)
(***************************************************************************)
VARIABLES
    uploads,        \* the files the client has selected and sends with a request
    options,        \* the form fields no_pricing_filter and tagged_filenames
    persisted,      \* the JSON document in config.tag_mapping_file, NoDict if absent
    clock,          \* datetime.now(), counted in saves of the structure editor
    request,        \* the handler that served the last request
    freshInput,     \* the first argument of a call of merge_user_customizations
    mergeOutput,    \* what the call returned, NoDict before the call
    phase,          \* "idle", "assembling" or "written": where create_final_pdf is
    included_items, \* create_final_pdf: the filtered and sorted items
    item_index,     \* create_final_pdf: the loop index i
    writer,         \* the PdfWriter: its pages and its outline
    current_parent_bookmark,    \* index into writer.outline, 0 for None
    results,        \* what each iteration of the loop obtained, in order
    manifest,       \* what create_file_manifest returned, NoDict before the call
    pending,        \* convert_all_documents: the filenames of the futures not yet
                    \* yielded by as_completed
    pdf_conversion_mapping, \* pdf_conversion_mapping.json: the dict pdf_mapping
                    \* in insertion order, << [filename, path] >>
    tag_order       \* src/create_final_pdf.py: the sorted tags of the assembler that
                    \* works from tag_groups, None before it has run

webVars == << uploads, options, persisted, clock, request >>
mergeVars == << freshInput, mergeOutput >>
assemblyVars ==
    << phase, included_items, item_index, writer, current_parent_bookmark, results,
       manifest >>
conversionVars == << pending, pdf_conversion_mapping >>

VARIABLES
    file_paths,         \* SimpleProcessor: the paths handed to process_files
    equipment_groups,   \* what extract_tags_from_files returned, NoDict before
    load_result         \* how _load_or_extract_structure ended, "none" before

resolverVars == << file_paths, equipment_groups, load_result >>

VARIABLES
    resolve_call,       \* a call of resolve_converted_path: its item, the loaded
                        \* pdf_mapping and the paths that exist, NoDict if none made
    resolved            \* what the call returned, NoDict before it returns

pathVars == << resolve_call, resolved >>

VARIABLES
    in_flight           \* web_interface.py: for each handler that reads and then
                        \* writes config.tag_mapping_file, where it is ("idle",
                        \* "read", "done"), the existing_data it has read and the
                        \* pdf_structure the client posted

VARIABLES
    converted_pdfs      \* what the conversion step made of each file it was given:
                        \* [flow, pdfs], NoDict before the step has run

VARIABLES
    progress_data,      \* ProgressManager.progress_data: for each registered
                        \* correlation id its 'completed' and 'success' fields
    clients,            \* ProgressManager.clients: for each registered id the
                        \* events waiting in its Queue
    processing,         \* where the background thread of each upload is
    active_processes,   \* the ids whose thread is in the active_processes list
    shutdown_event,     \* whether shutdown_event is set
    serving,            \* whether the server process is still running
    streams             \* for each id whether its /progress stream is "open",
                        \* "closed" after a 'complete' event, or "none"

progressVars ==
    << progress_data, clients, processing, active_processes, shutdown_event,
       serving, streams >>

VARIABLES
    pipeline_context,   \* PipelineContext: its _data and _stage_results
    stage_return        \* what the last PipelineStage.run returned, NoDict before

stageVars == << pipeline_context, stage_return >>

VARIABLES
    checkpoint_dir,     \* the files of CheckpointManager.checkpoint_dir, in the
                        \* order they were last written
    run_context         \* the context Pipeline.run went on with, NoDict before

checkpointVars == << checkpoint_dir, run_context >>

lateVars == << progressVars, stageVars, checkpointVars >>

otherVars == << resolverVars, pathVars, in_flight, converted_pdfs, lateVars >>
vars == << webVars, mergeVars, assemblyVars, conversionVars, tag_order, otherVars >>

MaxFiles == 3
MaxClock == 1

Universe ==
    { F_AHU1_TDS, F_MAU5_ItemSummary, F_CS_Widget, F_10_TDS, F_10_ItemSummary,
      F_10_FanCurve }

Batches == { b \in SUBSET Universe : Cardinality(b) \in 1..MaxFiles }

Options == [ no_pricing_filter : BOOLEAN, tagged_filenames : BOOLEAN ]

(* the sequences that enumerate a finite set once each *)
Orders(S) ==
    { s \in [ 1..Cardinality(S) -> S ] : \A x \in S : \E i \in DOMAIN s : s[i] = x }

(* tempfile.mkdtemp(prefix=...): the directory of the request *)
TempDirWeb == << "d", "s", "t", "_", "w", "e", "b", "_" >>
TempDirExtract == << "d", "s", "t", "_", "e", "x", "t", "r", "a", "c", "t", "_" >>

(* the temporary directory after the upload loop; the secured names of the *)
(* files of Universe are distinct, so the order of the uploads is          *)
(* immaterial                                                              *)
SavedDir(batch) == SaveUploads(CHOOSE s \in Orders(batch) : TRUE, { })

(* the orders in which glob may enumerate a directory *)
Listings(dir) == Orders({ f.name : f \in dir })

(* extract_all_tags followed by enhance_tag_mapping without prior edits *)
Generate(batch, opts, listing, docs_path) ==
    LET dir == SavedDir(batch)
        tag_mapping == extract_all_tags(dir, listing, opts.tagged_filenames)
    IN  enhance_tag_mapping(tag_mapping, dir, listing, docs_path,
                            opts.no_pricing_filter, opts.tagged_filenames, NoDict)

(* the structures a request may generate, one for each order in which the  *)
(* directory may be enumerated, tabulated over the inputs of a request     *)
GenerationOutcomes(batch, opts, docs_path) ==
    { Generate(batch, opts, l, docs_path) : l \in Listings(SavedDir(batch)) }

Generated ==
    [ k \in Batches \X Options \X { TempDirWeb, TempDirExtract } |->
        GenerationOutcomes(k[1], k[2], k[3]) ] @@ << >>

(* no merge is being examined, no assembler has been constructed, no       *)
(* conversion has been dispatched                                          *)
NoMerge == freshInput = NoDict /\ mergeOutput = NoDict

NoConversion == pending = { } /\ pdf_conversion_mapping = << >> /\ tag_order = None

NoResolver ==
    file_paths = << >> /\ equipment_groups = NoDict /\ load_result = "none"

NoPath == resolve_call = NoDict /\ resolved = NoDict

Handlers == { "run_dst_processing", "update_structure" }

IdleHandler == [ pc |-> "idle", existing_data |-> NoDict, pdf_structure |-> << >> ]

NoFlight == in_flight = [ h \in Handlers |-> IdleHandler ]

NoFilter == converted_pdfs = NoDict

(* the correlation ids of the uploads under examination *)
Operations == { "upload-1", "upload-2" }

NoProgress ==
    /\ progress_data = NoDict
    /\ clients = NoDict
    /\ processing = [ id \in Operations |-> "none" ]
    /\ active_processes = { }
    /\ shutdown_event = FALSE
    /\ serving = TRUE
    /\ streams = [ id \in Operations |-> "none" ]

NoStage == pipeline_context = NoDict /\ stage_return = NoDict

NoCheckpoint == checkpoint_dir = << >> /\ run_context = NoDict

NoLate == NoProgress /\ NoStage /\ NoCheckpoint

NoOther == NoResolver /\ NoPath /\ NoFlight /\ NoFilter /\ NoLate

EmptyWriter == [ pages |-> << >>, outline |-> << >> ]

NoAssembly ==
    /\ phase = "idle"
    /\ included_items = << >>
    /\ item_index = 0
    /\ writer = EmptyWriter
    /\ current_parent_bookmark = 0
    /\ results = << >>
    /\ manifest = NoDict

Init ==
    /\ uploads \in Batches
    /\ options \in Options
    /\ persisted = NoDict
    /\ clock = 0
    /\ request = "none"
    /\ NoMerge
    /\ NoAssembly
    /\ NoOther
    /\ NoConversion

(* POST /extract-tags *)
ExtractTags ==
    \E enhanced_mapping \in Generated[<< uploads, options, TempDirExtract >>] :
        /\ persisted' = enhanced_mapping
        /\ request' = "extract_tags"
        /\ UNCHANGED << otherVars, uploads, options, clock, mergeVars, assemblyVars,
                        conversionVars, tag_order >>

(* run_dst_processing: "Check for existing user-edited structure" *)
existing_user_edits_of(existing_data) ==
    IF /\ "pdf_structure" \in DOMAIN existing_data
       /\ "last_updated" \in DOMAIN Get(existing_data, "metadata", NoDict)
    THEN existing_data
    ELSE NoDict

(* POST /upload, up to the saving of the enhanced mapping *)
RunDstProcessing ==
    \E fresh \in Generated[<< uploads, options, TempDirWeb >>] :
        LET existing_user_edits == existing_user_edits_of(persisted)
        IN  /\ persisted' = IF IsDict(existing_user_edits)
                            THEN merge_user_customizations(fresh, existing_user_edits)
                            ELSE fresh
            /\ request' = "upload"
            /\ UNCHANGED << otherVars, uploads, options, clock, mergeVars, assemblyVars,
                        conversionVars, tag_order >>

(* what a user of the structure editor does to one item before saving *)
ToggleInclude(item) == SetItem(item, "include", ~Get(item, "include", TRUE))

Retitle(item) ==
    IF item.type = "title_page" THEN SetItem(item, "title", S_Custom)
    ELSE SetItem(item, "display_title", S_Custom)

(* POST /update-structure with the structure the client has edited *)
update_structure(existing_data, pdf_structure, now) ==
    SetItem(SetItem(existing_data, "pdf_structure", pdf_structure), "metadata",
            [ total_tags |-> CountType(pdf_structure, "title_page"),
              total_documents |-> CountType(pdf_structure, "document"),
              total_cut_sheets |-> CountType(pdf_structure, "cut_sheet"),
              total_items |-> Len(pdf_structure),
              processing_complete |-> TRUE,
              last_updated |-> now ])

UpdateStructure ==
    /\ clock < MaxClock
    /\ IsDict(persisted)
    /\ \E i \in 1..Len(persisted.pdf_structure), edit \in { "include", "title" } :
          LET item == persisted.pdf_structure[i]
              edited == IF edit = "include" THEN ToggleInclude(item) ELSE Retitle(item)
          IN  persisted' = update_structure(persisted,
                               [ persisted.pdf_structure EXCEPT ![i] = edited ],
                               clock + 1)
    /\ clock' = clock + 1
    /\ request' = "update_structure"
    /\ UNCHANGED << otherVars, uploads, options, mergeVars, assemblyVars, conversionVars, tag_order >>

Next == ExtractTags \/ RunDstProcessing \/ UpdateStructure

Spec == Init /\ [][Next]_vars


(***************************************************************************)
(* _archive_v1/src/create_final_pdf.py: FinalPDFAssembler.  A page of the  *)
(* output is named by the position of the item it comes from and its       *)
(* number in the item's PDF; an outline item is [title, page_number,       *)
(* parent] with parent an index into the outline, 0 for None.              *)
(***************************************************************************)
MaxTitlePages == 1

S_TitlePages == << "t", "i", "t", "l", "e", "_", "p", "a", "g", "e", "s" >>
S_TitlePrefix == << "t", "i", "t", "l", "e", "_" >>
S_Mapped == << "m", "a", "p", "p", "e", "d" >>

(* the page count of the PDF converted from an uploaded file *)
ConvertedPages == { << secure_filename(f.name), f.pages >> : f \in Universe }

PageCount(filename) == (CHOOSE p \in ConvertedPages : p[1] = filename)[2]

(* generate_title_page: the path of the title page, None if it failed *)
generate_title_page(title_pages_dir, tag, generated) ==
    LET safe_tag == Replace(Replace(tag, << "-" >>, << "_" >>), << " " >>, << "_" >>)
        title_page_path ==
            os_path_join(title_pages_dir, S_TitlePrefix \o safe_tag \o Ext_pdf)
    IN  IF generated THEN title_page_path ELSE None

FailedAdd(w) ==
    [ success |-> FALSE, start_page |-> None, end_page |-> None,
      bookmark_ref |-> 0, writer |-> w ]

(* faulty appends: one that numbers pages from 1, one that loses the       *)
(* output when a file cannot be added                                      *)
add_pdf_one_based(w, owner, exists, readable, page_count, add_bookmark, bookmark_title, bookmark_parent) ==
    IF ~exists \/ ~readable THEN FailedAdd(w)
    ELSE LET pages == w.pages \o [ n \in 1..page_count |-> << owner, n >> ]
         IN  [ success |-> TRUE, start_page |-> Len(w.pages) + 1,
               end_page |-> Len(pages),
               bookmark_ref |-> Len(w.outline) + 1,
               writer |-> [ pages |-> pages,
                            outline |-> Append(w.outline,
                                [ title |-> bookmark_title,
                                  page_number |-> Len(w.pages) + 1,
                                  parent |-> bookmark_parent ]) ] ]

add_pdf_losing_output(w, owner, exists, readable, page_count, add_bookmark, bookmark_title, bookmark_parent) ==
    IF ~exists \/ ~readable THEN FailedAdd(EmptyWriter)
    ELSE LET pages == w.pages \o [ n \in 1..page_count |-> << owner, n >> ]
         IN  [ success |-> TRUE, start_page |-> Len(w.pages),
               end_page |-> Len(pages) - 1,
               bookmark_ref |-> Len(w.outline) + 1,
               writer |-> [ pages |-> pages,
                            outline |-> Append(w.outline,
                                [ title |-> bookmark_title,
                                  page_number |-> Len(w.pages),
                                  parent |-> bookmark_parent ]) ] ]

(* add_pdf_to_writer: the file at pdf_path holds the page_count pages of   *)
(* item owner; it may not exist, and PdfReader may fail to open it         *)
add_pdf_to_writer(w, owner, exists, readable, page_count, add_bookmark, bookmark_title, bookmark_parent) ==
    IF ~exists \/ ~readable THEN FailedAdd(w)
    ELSE LET start_page == Len(w.pages)
             pages == w.pages \o [ n \in 1..page_count |-> << owner, n >> ]
             end_page == Len(pages) - 1
             bookmarked == add_bookmark /\ Truthy(bookmark_title)
             outline == IF bookmarked
                        THEN Append(w.outline,
                                 [ title |-> bookmark_title,
                                   page_number |-> start_page,
                                   parent |-> bookmark_parent ])
                        ELSE w.outline
         IN  [ success |-> TRUE, start_page |-> start_page, end_page |-> end_page,
               bookmark_ref |-> IF bookmarked THEN Len(outline) ELSE 0,
               writer |-> [ pages |-> pages, outline |-> outline ] ]

(* the candidates of resolve_converted_path for a document *)
PdfName(filename) == SplitextRoot(filename) \o Ext_pdf
DefaultPath(converted_pdfs_dir, filename) ==
    os_path_join(converted_pdfs_dir, PdfName(filename))
RelativePath(docs_path, filename) ==
    os_path_join(os_path_join(docs_path, S_ConvertedPdfs), PdfName(filename))
MappedPath(filename) == os_path_join(S_Mapped, PdfName(filename))

(* resolve_converted_path; present is the set of the paths that exist *)
resolve_converted_path(item, docs_path, converted_pdfs_dir, pdf_mapping, present) ==
    IF item.type = "cut_sheet"
    THEN IF Truthy(Get(item, "converted_path", None)) THEN item.converted_path
         ELSE os_path_join(docs_path, item.filename)
    ELSE LET filename == Get(item, "filename", None)
             converted_path == Get(item, "converted_path", None)
             default_path == DefaultPath(converted_pdfs_dir, filename)
             relative_path == RelativePath(docs_path, filename)
         IN  IF ~Truthy(filename) THEN None
             ELSE IF Truthy(converted_path) /\ converted_path \in present
                  THEN converted_path
             ELSE IF /\ filename \in DOMAIN pdf_mapping
                     /\ Truthy(pdf_mapping[filename])
                     /\ pdf_mapping[filename] \in present
                  THEN pdf_mapping[filename]
             ELSE IF default_path \in present THEN default_path
             ELSE IF relative_path \in present THEN relative_path
             ELSE None

(***************************************************************************)
(* merge_user_customizations on its own: the fresh and the prior structure *)
(* are generated from batches and options chosen independently, the prior  *)
(* one may have been edited and saved before the merge                     *)
(***************************************************************************)
MaxMergeFiles == 2

MergeUniverse == { F_AHU1_TDS, F_MAU5_ItemSummary, F_CS_Widget, F_10_ItemSummary }

MergeBatches ==
    { b \in Batches : b \subseteq MergeUniverse /\ Cardinality(b) <= MaxMergeFiles }

MergeInputs ==
    UNION { Generated[<< b, o, TempDirWeb >>] : b \in MergeBatches, o \in Options }

MergeInit ==
    /\ uploads = { }
    /\ options = NoDict
    /\ persisted \in MergeInputs
    /\ clock = 0
    /\ request = "none"
    /\ freshInput \in MergeInputs
    /\ mergeOutput = NoDict
    /\ NoAssembly
    /\ NoOther
    /\ NoConversion

(* the prior structure is edited in the structure editor and saved *)
EditPrior == mergeOutput = NoDict /\ UpdateStructure

(* merged = merge_user_customizations(fresh, prior) *)
Merge ==
    /\ mergeOutput = NoDict
    /\ mergeOutput' = merge_user_customizations(freshInput, persisted)
    /\ request' = "merge"
    /\ UNCHANGED << otherVars, uploads, options, persisted, clock, freshInput, assemblyVars,
                    conversionVars, tag_order >>

MergeNext == EditPrior \/ Merge

MergeSpec == MergeInit /\ [][MergeNext]_vars

(***************************************************************************)
(* An assembly run: the structure file holds a generated structure, the    *)
(* user may edit and save it, then FinalPDFAssembler loads it and          *)
(* create_final_pdf works through the included items.  The files that      *)
(* exist when an item is reached are chosen at that step; the filenames of *)
(* a structure are distinct, so no path is asked for twice.                *)
(***************************************************************************)
AssemblyBatches ==
    { { F_AHU1_TDS, F_MAU5_ItemSummary, F_CS_Widget },
      { F_10_TDS, F_10_FanCurve, F_MAU5_ItemSummary },
      { F_AHU1_TDS, F_10_TDS, F_CS_Widget } }

AssemblyOptions == { o \in Options : o.tagged_filenames }

AssemblyInputs ==
    UNION { Generated[<< b, o, TempDirWeb >>] :
                b \in AssemblyBatches, o \in AssemblyOptions }

AssemblyInit ==
    /\ uploads = { }
    /\ options = NoDict
    /\ persisted \in AssemblyInputs
    /\ clock = 0
    /\ request = "none"
    /\ NoMerge
    /\ NoAssembly
    /\ NoOther
    /\ NoConversion

(* the structure is edited and saved, once, before the assembler is        *)
(* constructed                                                             *)
EditStructure == phase = "idle" /\ request = "none" /\ UpdateStructure

PositionLt(a, b) == Get(a, "position", 0) < Get(b, "position", 0)

Included(item) == Get(item, "include", TRUE)

(* a faulty selection that keeps the hidden items *)
all_items_of(pdf_structure) == StableSort(pdf_structure, PositionLt)

(* a faulty selection that takes the documents in the order in which their *)
(* conversions were collected                                              *)
CompletionIndex(item) ==
    LET hit == { i \in 1..Len(pdf_conversion_mapping) :
                   pdf_conversion_mapping[i].filename = Get(item, "filename", None) }
    IN  IF hit = { } THEN 0 ELSE CHOOSE i \in hit : TRUE

CompletionLt(a, b) == CompletionIndex(a) < CompletionIndex(b)

items_as_completed(pdf_structure) ==
    StableSort(SelectSeq(pdf_structure, Included), CompletionLt)

(* "Filter to only included items, sorted by position" *)
included_items_of(pdf_structure) ==
    StableSort(SelectSeq(pdf_structure, Included), PositionLt)

(* FinalPDFAssembler(docs_path) and create_final_pdf up to the loop *)
StartAssembly ==
    /\ phase = "idle"
    /\ "pdf_structure" \in DOMAIN persisted
    /\ phase' = "assembling"
    /\ included_items' = included_items_of(persisted.pdf_structure)
    /\ item_index' = 1
    /\ writer' = EmptyWriter
    /\ current_parent_bookmark' = 0
    /\ results' = << >>
    /\ UNCHANGED << otherVars, manifest, webVars, mergeVars,
                    conversionVars, tag_order >>

Result(item, r) ==
    [ position |-> item.position, success |-> r.success,
      start_page |-> r.start_page, end_page |-> r.end_page,
      bookmark_ref |-> r.bookmark_ref ]

(* one iteration of the loop, item_type == 'title_page' *)
ProcessTitlePage ==
    /\ phase = "assembling"
    /\ item_index \in 1..Len(included_items)
    /\ included_items[item_index].type = "title_page"
    /\ \E generated \in BOOLEAN, exists \in BOOLEAN, readable \in BOOLEAN,
          page_count \in 1..MaxTitlePages :
          LET item == included_items[item_index]
              tag == Get(item, "tag", << >>)
              title == Get(item, "title", tag)
              title_page_path == generate_title_page(S_TitlePages, tag, generated)
              r == IF Truthy(title_page_path) /\ exists
                   THEN add_pdf_to_writer(writer, item.position, exists, readable,
                                          page_count, TRUE, title, 0)
                   ELSE FailedAdd(writer)
          IN  /\ writer' = r.writer
              /\ current_parent_bookmark' =
                    IF r.success THEN r.bookmark_ref ELSE current_parent_bookmark
              /\ results' = Append(results, Result(item, r))
    /\ item_index' = item_index + 1
    /\ UNCHANGED << otherVars, phase, included_items, manifest, webVars, mergeVars,
                    conversionVars, tag_order >>

CandidatePaths(item) ==
    { Get(item, "converted_path", None), MappedPath(item.filename),
      DefaultPath(S_ConvertedPdfs, item.filename),
      RelativePath(TempDirWeb, item.filename) }

(* pdf_conversion_mapping.json: absent, or naming the PDF of the file *)
PdfMappings(item) ==
    { NoDict, [ f \in { item.filename } |-> MappedPath(item.filename) ] }

(* the body of the branch item_type in ['document', 'cut_sheet'], with the *)
(* mapping the assembler loaded and the paths that exist                   *)
AddDocument(item, pdf_mapping, present, readable) ==
    LET converted_path ==
            resolve_converted_path(item, TempDirWeb, S_ConvertedPdfs,
                                   pdf_mapping, present)
        display_title == Get(item, "display_title", Get(item, "filename", None))
        r == IF Truthy(converted_path)
             THEN add_pdf_to_writer(writer, item.position,
                                    converted_path \in present, readable,
                                    PageCount(item.filename), TRUE,
                                    display_title, current_parent_bookmark)
             ELSE FailedAdd(writer)
    IN  /\ writer' = r.writer
        /\ results' = Append(results, Result(item, r))

(* one iteration of the loop, item_type in ['document', 'cut_sheet'] *)
ProcessDocument ==
    /\ phase = "assembling"
    /\ item_index \in 1..Len(included_items)
    /\ included_items[item_index].type \in { "document", "cut_sheet" }
    /\ \E pdf_mapping \in PdfMappings(included_items[item_index]),
          present \in SUBSET CandidatePaths(included_items[item_index]),
          readable \in BOOLEAN :
          AddDocument(included_items[item_index], pdf_mapping, present, readable)
    /\ item_index' = item_index + 1
    /\ UNCHANGED << otherVars, phase, included_items, current_parent_bookmark, manifest,
                    webVars, mergeVars,
                    conversionVars, tag_order >>

(* "Write final PDF" *)
WriteFinalPdf ==
    /\ phase = "assembling"
    /\ item_index > Len(included_items)
    /\ phase' = "written"
    /\ UNCHANGED << otherVars, included_items, item_index, writer, current_parent_bookmark,
                    results, manifest, webVars, mergeVars,
                    conversionVars, tag_order >>

(* a or b or c on values that may be missing *)
FirstTruthy(a, b, c) == IF Truthy(a) THEN a ELSE IF Truthy(b) THEN b ELSE c

ManifestTitle(item) ==
    FirstTruthy(Get(item, "display_title", None), Get(item, "title", None),
                Get(item, "filename", None))

IncludedEntry(item) ==
    [ type |-> item.type, title |-> ManifestTitle(item),
      position |-> Get(item, "position", 0) ]

ExcludedEntry(item) ==
    [ type |-> item.type, title |-> ManifestTitle(item), reason |-> "Manually excluded" ]

(* FinalPDFAssembler.create_file_manifest *)
create_file_manifest(pdf_structure) ==
    LET shown == SelectSeq(pdf_structure, Included)
        hidden == SelectSeq(pdf_structure, LAMBDA item : ~Included(item))
        included_entries == [ i \in 1..Len(shown) |-> IncludedEntry(shown[i]) ]
        excluded_entries == [ i \in 1..Len(hidden) |-> ExcludedEntry(hidden[i]) ]
    IN  [ included_items |-> included_entries,
          excluded_items |-> excluded_entries,
          summary |->
              [ total_items |-> Len(pdf_structure),
                included_items |-> Len(included_entries),
                excluded_items |-> Len(excluded_entries),
                title_pages |-> CountType(included_entries, "title_page"),
                documents |-> CountType(included_entries, "document"),
                cut_sheets |-> CountType(included_entries, "cut_sheet") ] ]

(* manifest = assembler.create_file_manifest(), after create_final_pdf *)
CreateManifest ==
    /\ phase = "written"
    /\ manifest = NoDict
    /\ manifest' = create_file_manifest(persisted.pdf_structure)
    /\ UNCHANGED << otherVars, phase, included_items, item_index, writer,
                    current_parent_bookmark, results, webVars, mergeVars,
                    conversionVars, tag_order >>

AssemblyStep ==
    StartAssembly \/ ProcessTitlePage \/ ProcessDocument \/ WriteFinalPdf
        \/ CreateManifest

AssemblyNext == EditStructure \/ AssemblyStep

AssemblySpec == AssemblyInit /\ [][AssemblyNext]_vars

(* create_final_pdf is one sequential call: once started it runs on *)
AssemblyLiveSpec == AssemblySpec /\ WF_vars(AssemblyStep)

(***************************************************************************)
(* dst_submittals.py: the documents of the tag mapping are converted by    *)
(* high_quality_pdf_converter.py: DocumentPDFConverter.convert_all_documents, *)
(* which submits one future per file and collects the results in the order *)
(* in which as_completed yields them; the mapping is saved, and the        *)
(* assembler loads it.                                                     *)
(***************************************************************************)
(* convert_and_filter: the path of the PDF, None when there is none;       *)
(* converted says whether the converter (or the copy of the image's PDF)   *)
(* succeeded                                                               *)
convert_and_filter(filename, converted) ==
    IF EndsWith(filename, Ext_doc) \/ EndsWith(filename, Ext_docx)
    THEN IF Contains(filename, S_ItemSummary) THEN None
         ELSE IF converted THEN DefaultPath(S_ConvertedPdfs, filename) ELSE None
    ELSE IF \E e \in { Ext_jpg, Ext_jpeg, Ext_png } : EndsWith(filename, e)
         THEN IF converted THEN DefaultPath(S_ConvertedPdfs, filename) ELSE None
    ELSE None

(* the futures of "executor.submit(self.convert_and_filter, filename) for  *)
(* filename, tag in tag_mapping.items()"                                   *)
Submitted(tag_mapping) == { tag_mapping[i].filename : i \in 1..Len(tag_mapping) }

ConversionInit ==
    /\ uploads = { }
    /\ options = NoDict
    /\ persisted \in AssemblyInputs
    /\ clock = 0
    /\ request = "none"
    /\ NoMerge
    /\ NoAssembly
    /\ NoOther
    /\ pending = Submitted(persisted.tag_mapping)
    /\ pdf_conversion_mapping = << >>
    /\ tag_order = None

(* one turn of "for future in as_completed(future_to_filename)": any of    *)
(* the outstanding futures may be the next to be yielded                   *)
FutureCompleted ==
    /\ phase = "idle"
    /\ \E filename \in pending, converted \in BOOLEAN :
          LET pdf_path == convert_and_filter(filename, converted)
          IN  /\ pending' = pending \ { filename }
              /\ pdf_conversion_mapping' =
                    IF Truthy(pdf_path)
                    THEN Append(pdf_conversion_mapping,
                                [ filename |-> filename, path |-> pdf_path ])
                    ELSE pdf_conversion_mapping
    /\ UNCHANGED << otherVars, webVars, mergeVars, assemblyVars, tag_order >>

(* json.load of pdf_conversion_mapping.json: the dict filename -> path *)
LoadedMapping(entries) ==
    [ f \in { entries[i].filename : i \in 1..Len(entries) } |->
        (CHOOSE e \in { entries[i] : i \in 1..Len(entries) } : e.filename = f).path ]

ConvertedPaths(entries) == { entries[i].path : i \in 1..Len(entries) }

(* FinalPDFAssembler(docs_path) once every future has been collected *)
StartAfterConversion == pending = { } /\ StartAssembly

(* the branch for a document when the files that exist are the cut sheets  *)
(* of the documents directory and the PDFs the converter wrote             *)
ProcessConvertedDocument ==
    /\ phase = "assembling"
    /\ item_index \in 1..Len(included_items)
    /\ included_items[item_index].type \in { "document", "cut_sheet" }
    /\ LET item == included_items[item_index]
           present == IF item.type = "cut_sheet"
                      THEN { Get(item, "converted_path", None) }
                      ELSE ConvertedPaths(pdf_conversion_mapping)
       IN  AddDocument(item, LoadedMapping(pdf_conversion_mapping), present, TRUE)
    /\ item_index' = item_index + 1
    /\ UNCHANGED << otherVars, phase, included_items, current_parent_bookmark, manifest,
                    webVars, mergeVars, conversionVars, tag_order >>

ConversionNext ==
    \/ FutureCompleted
    \/ StartAfterConversion
    \/ ProcessTitlePage
    \/ ProcessConvertedDocument
    \/ WriteFinalPdf
    \/ CreateManifest

ConversionSpec == ConversionInit /\ [][ConversionNext]_vars

(***************************************************************************)
(* web_interface.py: /update-structure stores whatever structure the       *)
(* client posts.  A client posts the structure with one item twice, or     *)
(* with two neighbours exchanged, and the assembler then runs on what was  *)
(* stored.                                                                 *)
(***************************************************************************)
Duplicated(pdf_structure, i) ==
    SubSeq(pdf_structure, 1, i) \o SubSeq(pdf_structure, i, Len(pdf_structure))

Exchanged(pdf_structure, i) ==
    [ k \in 1..Len(pdf_structure) |->
        IF k = i THEN pdf_structure[i + 1]
        ELSE IF k = i + 1 THEN pdf_structure[i]
        ELSE pdf_structure[k] ]

PostMalformed ==
    /\ phase = "idle"
    /\ request = "none"
    /\ IsDict(persisted)
    /\ \E i \in 1..Len(persisted.pdf_structure), twice \in BOOLEAN :
          /\ twice \/ i < Len(persisted.pdf_structure)
          /\ persisted' = update_structure(persisted,
                              IF twice THEN Duplicated(persisted.pdf_structure, i)
                              ELSE Exchanged(persisted.pdf_structure, i),
                              clock + 1)
    /\ clock' = clock + 1
    /\ request' = "update_structure"
    /\ UNCHANGED << otherVars, uploads, options, mergeVars, assemblyVars, conversionVars, tag_order >>

MalformedNext == PostMalformed \/ AssemblyStep

MalformedSpec == AssemblyInit /\ [][MalformedNext]_vars

(***************************************************************************)
(* The structure generator on its own: one request generates the structure *)
(* of a batch of files whose names carry equipment tags of several         *)
(* families and document types; src/create_final_pdf.py then orders the    *)
(* tag groups of the saved mapping for the final document.                 *)
(***************************************************************************)
MaxGeneratorFiles == 2

Named(tag, doc, ext) == tag \o S_Sep \o doc \o ext

S_Warranty == << "W", "a", "r", "r", "a", "n", "t", "y" >>
S_ItemHyphenSummary ==
    << "I", "t", "e", "m", "-", "S", "u", "m", "m", "a", "r", "y" >>
Tag_AHUA == S_AHU \o << "A" >>
Tag_EF3 == << "E", "F", "-", "3" >>
Tag_BOILERA == << "B", "O", "I", "L", "E", "R", "-", "A" >>

G_AHU1_FanCurve == File(Named(Tag_AHU1, S_FanCurve, Ext_jpg), FALSE, FALSE, None, 1)
G_MAU5_TDS == File(Named(Tag_MAU5, S_TechnicalDataSheet, Ext_docx), FALSE, TRUE, Tag_MAU5, 1)
G_MAU5_Warranty == File(Named(Tag_MAU5, S_Warranty, Ext_docx), FALSE, TRUE, Tag_MAU5, 1)
G_AHU1_ItemHyphenSummary ==
    File(Named(Tag_AHU1, S_ItemHyphenSummary, Ext_docx), TRUE, TRUE, Tag_AHU1, 1)
G_AHU1_SummaryDrawing ==
    File(Named(Tag_AHU1, S_ItemSummary \o << " " >> \o S_Drawing, Ext_docx),
         TRUE, TRUE, Tag_AHU1, 1)
G_AHU10_Drawing == File(Named(Tag_AHU10, S_Drawing, Ext_docx), FALSE, TRUE, Tag_AHU10, 1)
G_AHUA_TDS == File(Named(Tag_AHUA, S_TechnicalDataSheet, Ext_docx), FALSE, TRUE, Tag_AHUA, 1)
G_EF3_TDS == File(Named(Tag_EF3, S_TechnicalDataSheet, Ext_docx), FALSE, TRUE, Tag_EF3, 1)
G_BOILERA_TDS ==
    File(Named(Tag_BOILERA, S_TechnicalDataSheet, Ext_docx), FALSE, TRUE, Tag_BOILERA, 1)

GeneratorUniverse ==
    { F_AHU1_TDS, F_MAU5_ItemSummary, F_CS_Widget, G_AHU1_FanCurve, G_MAU5_TDS,
      G_MAU5_Warranty, G_AHU1_ItemHyphenSummary, G_AHU1_SummaryDrawing,
      G_AHU10_Drawing, G_AHUA_TDS, G_EF3_TDS, G_BOILERA_TDS }

(* the four files of the end-to-end scenario *)
EndToEndBatch == { F_AHU1_TDS, G_AHU1_FanCurve, G_MAU5_TDS, F_CS_Widget }

GeneratorBatches ==
    { b \in SUBSET GeneratorUniverse : Cardinality(b) \in 1..MaxGeneratorFiles }
        \cup { EndToEndBatch }

GeneratorInit ==
    /\ uploads \in GeneratorBatches
    /\ options \in Options
    /\ persisted = NoDict
    /\ clock = 0
    /\ request = "none"
    /\ NoMerge
    /\ NoAssembly
    /\ NoOther
    /\ NoConversion

(* POST /extract-tags for the uploads, whatever order the directory is     *)
(* enumerated in                                                           *)
GenerateStructure ==
    /\ persisted = NoDict
    /\ \E listing \in Listings(SavedDir(uploads)) :
          persisted' = Generate(uploads, options, listing, TempDirExtract)
    /\ request' = "extract_tags"
    /\ UNCHANGED << otherVars, uploads, options, clock, mergeVars, assemblyVars,
                    conversionVars, tag_order >>

(* src/create_final_pdf.py, create_final_pdf: "Get sorted tags"            *)
(* key=lambda x: (x.startswith('MAU-'), x.replace(...).zfill(10))          *)
FinalTagKeyLt(a, b) ==
    LET ma == StartsWith(a, S_MAU)
        mb == StartsWith(b, S_MAU)
    IN  \/ ~ma /\ mb
        \/ ma = mb /\ StrLt(TagSortKey(a).num, TagSortKey(b).num)

final_sorted_tags(tag_groups) ==
    StableSort([ i \in 1..Len(tag_groups) |-> tag_groups[i].tag ], FinalTagKeyLt)

(* FinalPDFAssembler(docs_path).create_final_pdf() of src/create_final_pdf.py *)
(* up to the loop over the tags                                            *)
SortTags ==
    /\ IsDict(persisted)
    /\ tag_order = None
    /\ tag_order' = final_sorted_tags(persisted.tag_groups)
    /\ UNCHANGED << otherVars, webVars, mergeVars, assemblyVars, conversionVars >>

GeneratorNext == GenerateStructure \/ SortTags

GeneratorSpec == GeneratorInit /\ [][GeneratorNext]_vars

(***************************************************************************)
(* Properties of the structure generator and of the persisted structure    *)
(***************************************************************************)
Items(data) == Get(data, "pdf_structure", << >>)

(* C1: for every batch and either setting of the pricing filter the items  *)
(* the generator emits carry the positions 1, 2, ..., n in emission order  *)
(* (no gap, no duplicate), and an item with include = FALSE still occupies *)
(* its own position.                                                       *)
C1_PositionsDense ==
    request \in { "extract_tags", "upload" } =>
        \A i \in 1..Len(Items(persisted)) : Items(persisted)[i].position = i

(* a generated structure, filter on, whose hidden pricing item is followed *)
(* by an item at the next position                                         *)
C1_HiddenItemKeepsPosition ==
    /\ request = "extract_tags"
    /\ ~options.no_pricing_filter
    /\ \E i \in 1..Len(Items(persisted)) :
          /\ i < Len(Items(persisted))
          /\ Items(persisted)[i].include = FALSE
          /\ Items(persisted)[i].position = i
          /\ Items(persisted)[i + 1].position = i + 1

StructureTuples(data) ==
    [ i \in 1..Len(Items(data)) |->
        << Get(Items(data)[i], "type", None), Get(Items(data)[i], "tag", None),
           Get(Items(data)[i], "filename", None), Get(Items(data)[i], "position", 0) >> ]

(* C2: two runs of the generator on the same unchanged file set with the   *)
(* same options and no prior structure yield the identical sequence of     *)
(* (type, tag, filename, position) tuples.                                 *)
C2_Deterministic ==
    [][ (request = "extract_tags" /\ request' = "extract_tags")
            => StructureTuples(persisted') = StructureTuples(persisted) ]_vars

HumanSaved(data) ==
    IsDict(data) /\ "last_updated" \in DOMAIN Get(data, "metadata", NoDict)

TitleOf(item) ==
    IF Get(item, "type", None) = "title_page" THEN Get(item, "title", None)
    ELSE Get(item, "display_title", None)

OverridesCarried(before, after) ==
    \A i \in 1..Len(Items(before)), j \in 1..Len(Items(after)) :
        Identifier(Items(before)[i]) = Identifier(Items(after)[j]) =>
            /\ Get(Items(after)[j], "include", TRUE) = Get(Items(before)[i], "include", TRUE)
            /\ TitleOf(Items(after)[j]) = TitleOf(Items(before)[i])

(* C3: once a human has saved title or include overrides, every later      *)
(* automated generation over the same files, the tag-extraction request as *)
(* well as the full processing run, leaves a persisted structure that      *)
(* still carries the overrides of every item that still exists.            *)
C3_OverridesSurvive ==
    [][ (HumanSaved(persisted) /\ request' \in { "extract_tags", "upload" })
            => OverridesCarried(persisted, persisted') ]_vars

(* the same for the full processing run alone *)
OverridesSurviveProcessing ==
    [][ (HumanSaved(persisted) /\ request' = "upload")
            => OverridesCarried(persisted, persisted') ]_vars

(***************************************************************************)
(* Properties of merge_user_customizations                                 *)
(***************************************************************************)
Matches(a, b) == Identifier(a) = Identifier(b)

HasMatch(item, structure) ==
    \E j \in 1..Len(structure) : Matches(item, structure[j])

OverrideFields == { "display_title", "title", "include" }

C5_MergeFixedPoint ==
    (IsDict(mergeOutput) /\ persisted = freshInput) => mergeOutput = freshInput

(* such a merge of a structure with a hidden pricing item *)
C5_MergedWithItself ==
    /\ IsDict(mergeOutput)
    /\ persisted = freshInput
    /\ ~HumanSaved(persisted)
    /\ \E i \in 1..Len(Items(freshInput)) : Items(freshInput)[i].include = FALSE

(* C6: the result of the merge contains exactly the items of the fresh     *)
(* structure in its order: an item only in fresh keeps its generated title *)
(* and include, an item only in prior does not appear.                     *)
C6_MergeKeepsFreshItems ==
    IsDict(mergeOutput) =>
        /\ Len(Items(mergeOutput)) = Len(Items(freshInput))
        /\ \A i \in 1..Len(Items(freshInput)) :
              /\ Matches(Items(mergeOutput)[i], Items(freshInput)[i])
              /\ ~HasMatch(Items(freshInput)[i], Items(persisted))
                    => Items(mergeOutput)[i] = Items(freshInput)[i]
        /\ \A j \in 1..Len(Items(persisted)) :
              ~HasMatch(Items(persisted)[j], Items(freshInput))
                    => ~HasMatch(Items(persisted)[j], Items(mergeOutput))

(* a merge with an edited prior structure in which one item is only in     *)
(* fresh, one only in prior and one in both                                *)
C6_AddedAndRemovedFiles ==
    /\ IsDict(mergeOutput)
    /\ HumanSaved(persisted)
    /\ \E i \in 1..Len(Items(freshInput)) :
          ~HasMatch(Items(freshInput)[i], Items(persisted))
    /\ \E i \in 1..Len(Items(freshInput)) :
          HasMatch(Items(freshInput)[i], Items(persisted))
    /\ \E j \in 1..Len(Items(persisted)) :
          ~HasMatch(Items(persisted)[j], Items(freshInput))

(***************************************************************************)
(* Properties of the assembly.  The structure the assembler has loaded is  *)
(* the persisted one: it is not edited once the assembler is constructed.  *)
(***************************************************************************)
ItemAt(p) ==
    Items(persisted)[CHOOSE i \in 1..Len(Items(persisted)) :
                        Items(persisted)[i].position = p]

Succeeded == { k \in 1..Len(results) : results[k].success }
Failed == { k \in 1..Len(results) : ~results[k].success }

(* the position of the title page of the group of the item at position p:  *)
(* the nearest title_page before it in position order, 0 if there is none  *)
GroupTitlePosition(p) ==
    LET before == { q \in 1..(p - 1) :
                      \E i \in 1..Len(Items(persisted)) :
                          /\ Items(persisted)[i].position = q
                          /\ Items(persisted)[i].type = "title_page" }
    IN  IF before = { } THEN 0 ELSE CHOOSE q \in before : \A x \in before : x <= q

(* C7: in the assembled document every document or cut_sheet bookmark is a *)
(* child of the top-level bookmark opened by the title_page item of its    *)
(* own group, the nearest preceding title_page in position order; none is  *)
(* attached to the bookmark of another group or left at top level.         *)
C7_BookmarkUnderOwnGroup ==
    \A k \in Succeeded :
        ItemAt(results[k].position).type \in { "document", "cut_sheet" } =>
            \E j \in Succeeded :
                /\ results[j].position = GroupTitlePosition(results[k].position)
                /\ results[j].bookmark_ref # 0
                /\ writer.outline[results[k].bookmark_ref].parent
                      = results[j].bookmark_ref

(* the pages start_page..end_page of the output are the pages of the item *)
OwnPages(w, r) ==
    /\ r.end_page < Len(w.pages)
    /\ \A n \in 1..(r.end_page - r.start_page + 1) :
          w.pages[r.start_page + n] = << r.position, n >>

(* C8: for every item appended the recorded start_page is the number of    *)
(* pages already in the output and end_page is start_page plus the page    *)
(* count of the item minus 1; the ranges of successive items are           *)
(* contiguous and disjoint and the bookmark of an item points at the first *)
(* page of that item.                                                      *)
C8_PageRanges ==
    [][ (Len(results') = Len(results) + 1 /\ results'[Len(results')].success) =>
            LET r == results'[Len(results')]
                count == Len(writer'.pages) - Len(writer.pages)
                earlier == Succeeded
            IN  /\ r.start_page = Len(writer.pages)
                /\ count >= 1
                /\ r.end_page = r.start_page + count - 1
                /\ ItemAt(r.position).type # "title_page"
                      => count = PageCount(ItemAt(r.position).filename)
                /\ OwnPages(writer', r)
                /\ IF earlier = { } THEN r.start_page = 0
                   ELSE r.start_page =
                          results[CHOOSE k \in earlier :
                                     \A j \in earlier : j <= k].end_page + 1
                /\ r.bookmark_ref # 0
                /\ writer'.outline[r.bookmark_ref].page_number = r.start_page
                /\ writer'.pages[writer'.outline[r.bookmark_ref].page_number + 1]
                      = << r.position, 1 >>
      ]_vars

(* an item of two pages has been appended and another item after it *)
C8_TwoItemsAppended ==
    \E k \in Succeeded, j \in Succeeded :
        /\ k < j
        /\ results[k].end_page = results[k].start_page + 1
        /\ results[j].start_page = results[k].end_page + 1

IncludedPositions ==
    { Items(persisted)[i].position :
        i \in { j \in 1..Len(Items(persisted)) :
                    Get(Items(persisted)[j], "include", TRUE) } }

Ascending(seq) ==
    \A i \in 1..Len(seq), j \in 1..Len(seq) : i < j => seq[i].position < seq[j].position

(* the pages of the output are those of the appended items, item by item   *)
(* in the order of the results, and every outline item is the bookmark of  *)
(* one appended item                                                       *)
OutputOfAppended ==
    /\ \A k \in Succeeded : OwnPages(writer, results[k])
    /\ \A n \in 1..Len(writer.pages) :
          \E k \in Succeeded :
              results[k].start_page < n /\ n <= results[k].end_page + 1
    /\ \A b \in 1..Len(writer.outline) :
          \E k \in Succeeded : results[k].bookmark_ref = b

(* C9 as stated: the assembly appends exactly the items with include=true, *)
(* in ascending position order, and an item with include=false            *)
(* contributes no pages and no bookmark.                                   *)
C9_AppendsEveryIncluded ==
    phase = "written" =>
        /\ { results[k].position : k \in Succeeded } = IncludedPositions
        /\ Ascending(results)
        /\ OutputOfAppended

(* C9: the assembly attempts exactly the items with include=true, once     *)
(* each in ascending position order, and appends every one of them whose   *)
(* PDF it obtains, in that order; an item with include=false contributes   *)
(* no pages and no bookmark.                                               *)
C9_AppendsIncludedInOrder ==
    phase = "written" =>
        /\ { results[k].position : k \in 1..Len(results) } = IncludedPositions
        /\ Len(results) = Cardinality(IncludedPositions)
        /\ Ascending(results)
        /\ OutputOfAppended

(* a finished run over a structure with a hidden item, an included item    *)
(* whose PDF was missing and two appended items                            *)
C9_HiddenAndMissing ==
    /\ phase = "written"
    /\ \E i \in 1..Len(Items(persisted)) : ~Get(Items(persisted)[i], "include", TRUE)
    /\ Failed # { }
    /\ Cardinality(Succeeded) >= 2

(* every appended item has its pages and a bookmark with its title at its  *)
(* first page in the output                                                *)
AppendedPresent ==
    /\ \A k \in Succeeded :
          /\ OwnPages(writer, results[k])
          /\ results[k].bookmark_ref \in 1..Len(writer.outline)
          /\ writer.outline[results[k].bookmark_ref].page_number = results[k].start_page
          /\ writer.outline[results[k].bookmark_ref].title
                = TitleOf(ItemAt(results[k].position))
    /\ \A k \in Succeeded, j \in Succeeded :
          k < j => /\ results[k].position < results[j].position
                   /\ results[k].end_page < results[j].start_page

OneFailed == Cardinality(Failed) = 1

(* C10: if the converted PDF of one included item is missing or cannot be  *)
(* produced the assembly still completes, and the output contains the      *)
(* pages and bookmarks of every other included item in position order.     *)
C10_SurvivesMissingPdf ==
    /\ [](( phase = "written" /\ OneFailed ) =>
            /\ { results[k].position : k \in Succeeded }
                  = IncludedPositions \ { results[k].position : k \in Failed }
            /\ AppendedPresent)
    /\ (Failed # { }) ~> (phase = "written")

(* a finished run in which only the fan curve of a group was missing: the  *)
(* title page and the technical data sheet of the group are in the output  *)
C10_FanCurveMissing ==
    /\ phase = "written"
    /\ OneFailed
    /\ \E k \in Failed, j \in Succeeded, t \in Succeeded :
          /\ Get(ItemAt(results[k].position), "file_type", None) = "Fan Curve"
          /\ Get(ItemAt(results[j].position), "file_type", None) = "Technical Data Sheet"
          /\ ItemAt(results[j].position).tag = ItemAt(results[k].position).tag
          /\ ItemAt(results[t].position).type = "title_page"
          /\ ItemAt(results[t].position).tag = ItemAt(results[k].position).tag

(***************************************************************************)
(* Properties of the manifest                                              *)
(***************************************************************************)
Entries(m, key) == LET es == Get(m, key, << >>) IN { es[i] : i \in 1..Len(es) }

ListedIncluded(item) ==
    \E e \in Entries(manifest, "included_items") :
        e.type = item.type /\ e.position = Get(item, "position", 0)

ListedExcluded(item) ==
    \E e \in Entries(manifest, "excluded_items") :
        e.type = item.type /\ e.title = ManifestTitle(item)

ListedFailed(item) ==
    \E e \in Entries(manifest, "failed_items") :
        e.type = item.type /\ e.title = ManifestTitle(item)

FailedItem(item) ==
    Included(item) /\ \E k \in Failed : results[k].position = item.position

(* C11: the manifest of an assembly run lists every structure item in      *)
(* exactly one of three categories: included, excluded by design           *)
(* (include = FALSE), failed (include = TRUE but no PDF could be           *)
(* appended); an item whose conversion is missing is listed under failed   *)
(* and not under included.                                                 *)
C11_ManifestCategories ==
    IsDict(manifest) =>
        \A i \in 1..Len(persisted.pdf_structure) :
            LET item == persisted.pdf_structure[i]
            IN  /\ ListedIncluded(item) <=> (Included(item) /\ ~FailedItem(item))
                /\ ListedExcluded(item) <=> ~Included(item)
                /\ ListedFailed(item) <=> FailedItem(item)

(***************************************************************************)
(* Properties of the conversion stage                                      *)
(***************************************************************************)
PagesBefore(position) ==
    Cardinality({ i \in 1..Len(writer.pages) : writer.pages[i][1] < position })

PositionOfFile(filename) ==
    LET hit == { i \in 1..Len(persisted.pdf_structure) :
                   Get(persisted.pdf_structure[i], "filename", None) = filename }
    IN  persisted.pdf_structure[CHOOSE i \in hit : TRUE].position

(* C12: whatever the order in which the dispatched conversions complete,   *)
(* the pages of the final document are those of the appended items in      *)
(* ascending position, and the page number of every bookmark is the number *)
(* of pages of the appended items of smaller position.                     *)
C12_OrderByPositionOnly ==
    phase = "written" =>
        /\ \A i, j \in 1..Len(writer.pages) :
              i < j => \/ writer.pages[i][1] < writer.pages[j][1]
                       \/ /\ writer.pages[i][1] = writer.pages[j][1]
                          /\ writer.pages[i][2] < writer.pages[j][2]
        /\ \A k \in Succeeded :
              /\ results[k].start_page = PagesBefore(results[k].position)
              /\ results[k].bookmark_ref \in 1..Len(writer.outline)
              /\ writer.outline[results[k].bookmark_ref].page_number
                    = PagesBefore(results[k].position)

(* two documents whose conversions completed in the reverse of their       *)
(* positions are both in the written document                              *)
C12_CompletedOutOfOrder ==
    /\ phase = "written"
    /\ \E a, b \in 1..Len(pdf_conversion_mapping) :
          /\ a < b
          /\ PositionOfFile(pdf_conversion_mapping[a].filename)
                > PositionOfFile(pdf_conversion_mapping[b].filename)
          /\ \A f \in { pdf_conversion_mapping[a].filename,
                        pdf_conversion_mapping[b].filename } :
                \E k \in Succeeded : results[k].position = PositionOfFile(f)

(***************************************************************************)
(* Properties of the validation of a structure                             *)
(***************************************************************************)
UniqueKeys(pdf_structure) ==
    \A i, j \in 1..Len(pdf_structure) :
        i # j => Identifier(pdf_structure[i]) # Identifier(pdf_structure[j])

StrictlyIncreasing(pdf_structure) ==
    \A i \in 1..(Len(pdf_structure) - 1) :
        Get(pdf_structure[i], "position", 0) < Get(pdf_structure[i + 1], "position", 0)

(* C13: a structure with two items of the same (type, tag, filename) key,  *)
(* or whose positions are not strictly increasing, is rejected: no output  *)
(* document is written from it.                                            *)
C13_MalformedRejected ==
    phase = "written" =>
        /\ UniqueKeys(persisted.pdf_structure)
        /\ StrictlyIncreasing(persisted.pdf_structure)

(***************************************************************************)
(* Properties of the pricing filter                                        *)
(***************************************************************************)
Documents(data) ==
    { it \in { Items(data)[i] : i \in 1..Len(Items(data)) } : it.type = "document" }

UploadedFile(filename) == FileNamed(SavedDir(uploads), filename)

(* C14: every generated document classified Item Summary whose content     *)
(* holds a currency amount has pricing_file = TRUE, in filename mode as    *)
(* well as in content mode, and (no prior structure) include = FALSE when  *)
(* the pricing filter is enabled, TRUE when it is disabled.                *)
C14_PricedSummaryFlagged ==
    \A it \in Documents(persisted) :
        (it.file_type = "Item Summary" /\ UploadedFile(it.filename).dollar)
            => /\ it.pricing_file
               /\ it.include = options.no_pricing_filter

(* C15: in filename mode a file is opened for pricing content scanning     *)
(* only if it is classified Item Summary; a file of any other              *)
(* classification is taken to be free of prices.                           *)
C15_OnlySummariesScanned ==
    options.tagged_filenames =>
        \A it \in Documents(persisted) :
            it.file_type # "Item Summary"
                => /\ ~should_check_pricing_content(it.filename, TRUE)
                   /\ ~it.pricing_file

(***************************************************************************)
(* Properties of the order of the groups                                   *)
(***************************************************************************)
(* the tags of the equipment title pages of a structure, in order *)
GroupTags(data) ==
    LET titles == SelectSeq(Items(data),
                     LAMBDA it : it.type = "title_page" /\ it.tag # S_CutSheets)
    IN  [ i \in 1..Len(titles) |-> titles[i].tag ]

Family(tag) == SplitFirst(tag, << "-" >>)

Suffix(tag) ==
    IF Contains(tag, << "-" >>) THEN SubSeq(tag, Find(tag, << "-" >>) + 1, Len(tag))
    ELSE << >>

NumericSuffix(tag) ==
    Suffix(tag) # << >> /\ \A i \in 1..Len(Suffix(tag)) : Suffix(tag)[i] \in Digits

KnownFamilies ==
    { << "A", "H", "U" >>, << "M", "A", "U" >>, << "R", "T", "U" >>,
      << "F", "C", "U" >>, << "W", "S", "H", "P" >>, << "H", "P" >>,
      << "F", "C" >>, << "B", "C" >>, << "B", "C", "U" >>,
      << "D", "O", "A", "S" >>, << "O", "A", "H", "U" >>, << "C", "H" >> }

Custom(tag) == Family(tag) \notin KnownFamilies

(* in the sequence tags every tag that satisfies First stands before every *)
(* tag that satisfies Second                                               *)
AllBefore(tags, First(_), Second(_)) ==
    \A i, j \in 1..Len(tags) : (First(tags[i]) /\ Second(tags[j])) => i < j

IsMau(tag) == StartsWith(tag, S_MAU)
IsAhu(tag) == StartsWith(tag, S_AHU)

(* C16: in the generated group order, and in the order in which the final  *)
(* document takes the groups, every MAU group precedes every AHU group,    *)
(* whatever their suffixes are.                                            *)
C16_MauBeforeAhu ==
    /\ AllBefore(GroupTags(persisted), IsMau, IsAhu)
    /\ tag_order # None => AllBefore(tag_order, IsMau, IsAhu)

(* C17: within one prefix family every group with a purely numeric suffix  *)
(* precedes every group of the family with an alphanumeric suffix.         *)
C17_NumericBeforeAlphanumeric ==
    LET tags == GroupTags(persisted)
    IN  \A i, j \in 1..Len(tags) :
            ( /\ Family(tags[i]) = Family(tags[j])
              /\ NumericSuffix(tags[i])
              /\ ~NumericSuffix(tags[j]) ) => i < j

(* C18: every group of a custom prefix comes after all groups of the known *)
(* families, and the custom groups are in alphabetical order.              *)
C18_CustomGroupsLast ==
    LET tags == GroupTags(persisted)
    IN  \A i, j \in 1..Len(tags) :
            /\ (~Custom(tags[i]) /\ Custom(tags[j])) => i < j
            /\ (Custom(tags[i]) /\ Custom(tags[j]) /\ i < j) => StrLt(tags[i], tags[j])

(***************************************************************************)
(* Properties of the order of the documents of a group                     *)
(***************************************************************************)
(* the type-priority table technical_data < fan_curve < drawing <          *)
(* item_summary < specification < manual < warranty < other, on the        *)
(* classifications the generator gives                                     *)
TablePriority(file_type) ==
    CASE file_type = "Technical Data Sheet" -> 1
      [] file_type = "Fan Curve" -> 2
      [] file_type = "Drawing" -> 3
      [] file_type = "Item Summary" -> 4
      [] OTHER -> 8

(* C19: within each equipment group the documents are emitted in           *)
(* non-decreasing order of the type-priority table, and documents of equal *)
(* type in the order of their filenames.                                   *)
C19_DocumentsByTypePriority ==
    LET items == Items(persisted)
    IN  \A i, j \in 1..Len(items) :
            ( /\ i < j
              /\ items[i].type = "document"
              /\ items[j].type = "document"
              /\ items[i].tag = items[j].tag )
            => \/ TablePriority(items[i].file_type) < TablePriority(items[j].file_type)
               \/ /\ TablePriority(items[i].file_type) = TablePriority(items[j].file_type)
                  /\ StrLt(items[i].filename, items[j].filename)

(* type, tag, filename, classification and position of every item *)
Shape(data) ==
    [ i \in 1..Len(Items(data)) |->
        [ type |-> Items(data)[i].type,
          tag |-> Items(data)[i].tag,
          filename |-> Get(Items(data)[i], "filename", None),
          file_type |-> Get(Items(data)[i], "file_type", "none"),
          position |-> Items(data)[i].position ] ]

TitleShape(tag, position) ==
    [ type |-> "title_page", tag |-> tag, filename |-> None,
      file_type |-> "none", position |-> position ]

DocumentShape(tag, file, file_type, position) ==
    [ type |-> "document", tag |-> tag,
      filename |-> secure_filename(file.name),
      file_type |-> file_type, position |-> position ]

EndToEndShape ==
    << TitleShape(Tag_MAU5, 1),
       DocumentShape(Tag_MAU5, G_MAU5_TDS, "Technical Data Sheet", 2),
       TitleShape(Tag_AHU1, 3),
       DocumentShape(Tag_AHU1, F_AHU1_TDS, "Technical Data Sheet", 4),
       DocumentShape(Tag_AHU1, G_AHU1_FanCurve, "Fan Curve", 5),
       TitleShape(S_CutSheets, 6),
       [ type |-> "cut_sheet", tag |-> S_CutSheets, filename |-> N_CS_Widget,
         file_type |-> "none", position |-> 7 ] >>

Alnum == Digits \cup { UpperLetters[i] : i \in 1..Len(UpperLetters) }

(* the length of the longest run of [A-Z0-9] (re.IGNORECASE) of s from i *)
RECURSIVE AlnumRun(_, _)
AlnumRun(s, i) ==
    IF i <= Len(s) /\ UpperChar[s[i]] \in Alnum THEN 1 + AlnumRun(s, i + 1) ELSE 0

S_OAHU == << "O", "A", "H", "U" >>
S_WSHP == << "W", "S", "H", "P" >>
S_DOAS == << "D", "O", "A", "S" >>
S_BCU == << "B", "C", "U" >>
S_RTU == << "R", "T", "U" >>
S_FCU == << "F", "C", "U" >>
S_HP == << "H", "P" >>
S_FC == << "F", "C" >>
S_BC == << "B", "C" >>
S_CH == << "C", "H" >>

(* generic catch-all: (?!CS)(^[A-Z]+[A-Z0-9]*[-_][A-Z0-9]+) *)
GenericPattern == << "^" >>

(* the same patterns with AHU and MAU tried first *)
ahu_first_patterns ==
    << << "A", "H", "U" >>, << "M", "A", "U" >>, S_OAHU, S_WSHP, S_DOAS, S_BCU,
       S_RTU, S_FCU, S_HP, S_FC, S_BC, S_CH, GenericPattern >>

(* self.tag_patterns: each entry P stands for (P[-_][A-Z0-9]+) *)
tag_patterns ==
    << S_OAHU, S_WSHP, S_DOAS, S_BCU, << "A", "H", "U" >>, << "M", "A", "U" >>,
       S_RTU, S_FCU, S_HP, S_FC, S_BC, S_CH, GenericPattern >>

(* the pattern (P[-_][A-Z0-9]+) matches s at index i *)
PrefixMatchAt(s, P, i) ==
    /\ i + Len(P) + 1 <= Len(s)
    /\ Upper(SubSeq(s, i, i + Len(P) - 1)) = P
    /\ s[i + Len(P)] \in { "-", "_" }
    /\ AlnumRun(s, i + Len(P) + 1) >= 1

(* the generic pattern matches s, at its start only *)
GenericMatch(s) ==
    /\ ~StartsWith(Upper(s), S_CS)
    /\ s # << >>
    /\ UpperChar[s[1]] \in Alnum \ Digits
    /\ AlnumRun(s, 1) + 1 <= Len(s)
    /\ s[AlnumRun(s, 1) + 1] \in { "-", "_" }
    /\ AlnumRun(s, AlnumRun(s, 1) + 2) >= 1

(* pattern.search(s): group(1) of the leftmost match, None without a match *)
PatternSearch(P, s) ==
    IF P = GenericPattern
    THEN IF GenericMatch(s)
         THEN SubSeq(s, 1, AlnumRun(s, 1) + 1 + AlnumRun(s, AlnumRun(s, 1) + 2))
         ELSE None
    ELSE LET hits == { i \in 1..Len(s) : PrefixMatchAt(s, P, i) }
             i == CHOOSE k \in hits : \A j \in hits : k <= j
         IN  IF hits = { } THEN None
             ELSE SubSeq(s, i, i + Len(P) + AlnumRun(s, i + Len(P) + 1))

(* the tag the first matching pattern of the list gives *)
FirstPatternTag(patterns, s) ==
    LET hits == { k \in 1..Len(patterns) : PatternSearch(patterns[k], s) # None }
        k == CHOOSE h \in hits : \A j \in hits : h <= j
    IN  IF hits = { } THEN None ELSE Upper(PatternSearch(patterns[k], s))

(* SimpleTagExtractor.extract_tag_from_filename *)
simple_extract_tag_from_filename(filename) ==
    LET base_name == SplitextRoot(filename)
    IN  IF StartsWith(Upper(base_name), S_CS) THEN None
        ELSE FirstPatternTag(tag_patterns, base_name)

(* a regular expression w1\s+w2\s+...: the words in a row, one or more     *)
(* blanks between them; MatchWordsAt holds when it matches s at index i    *)
RECURSIVE MatchWordsAt(_, _, _)
MatchWordsAt(s, words, i) ==
    IF words = << >> THEN TRUE
    ELSE /\ i + Len(words[1]) - 1 <= Len(s)
         /\ SubSeq(s, i, i + Len(words[1]) - 1) = words[1]
         /\ \/ Len(words) = 1
            \/ \E j \in (i + Len(words[1]) + 1)..Len(s) :
                  /\ \A k \in (i + Len(words[1]))..(j - 1) : s[k] \in Whitespace
                  /\ MatchWordsAt(s, Tail(words), j)

(* pattern.search(s) for such an expression *)
SearchWords(s, words) == \E i \in 1..Len(s) : MatchWordsAt(s, words, i)

W_technical == << "t", "e", "c", "h", "n", "i", "c", "a", "l" >>
W_tech == << "t", "e", "c", "h" >>
W_data == << "d", "a", "t", "a" >>
W_sheet == << "s", "h", "e", "e", "t" >>
W_item == << "i", "t", "e", "m" >>
W_summary == << "s", "u", "m", "m", "a", "r", "y" >>
W_fan == << "f", "a", "n" >>
W_curve == << "c", "u", "r", "v", "e" >>
W_performance == << "p", "e", "r", "f", "o", "r", "m", "a", "n", "c", "e" >>
W_drawing == << "d", "r", "a", "w", "i", "n", "g" >>
W_dwg == << "d", "w", "g" >>
W_cad == << "c", "a", "d" >>
W_preciseline == << "p", "r", "e", "c", "i", "s", "e", "l", "i", "n", "e" >>
W_smartsource == << "s", "m", "a", "r", "t", "s", "o", "u", "r", "c", "e" >>
W_specification ==
    << "s", "p", "e", "c", "i", "f", "i", "c", "a", "t", "i", "o", "n" >>
W_spec == << "s", "p", "e", "c" >>
W_cut == << "c", "u", "t" >>
W_manual == << "m", "a", "n", "u", "a", "l" >>
W_instruction == << "i", "n", "s", "t", "r", "u", "c", "t", "i", "o", "n" >>
W_operation == << "o", "p", "e", "r", "a", "t", "i", "o", "n" >>
W_maintenance == << "m", "a", "i", "n", "t", "e", "n", "a", "n", "c", "e" >>
W_warranty == << "w", "a", "r", "r", "a", "n", "t", "y" >>
W_guarantee == << "g", "u", "a", "r", "a", "n", "t", "e", "e" >>

(* self.doc_type_patterns without 'cutsheet', in the order of the dict *)
doc_type_patterns ==
    << [ doc_type |-> "technical_data",
         patterns |-> { << W_technical, W_data >>, << W_tech, W_data >>,
                        << W_data, W_sheet >>, << W_technical, W_data, W_sheet >> } ],
       [ doc_type |-> "item_summary", patterns |-> { << W_item, W_summary >> } ],
       [ doc_type |-> "fan_curve",
         patterns |-> { << W_fan, W_curve >>, << W_curve >>,
                        << W_performance, W_curve >> } ],
       [ doc_type |-> "drawing",
         patterns |-> { << W_drawing >>, << W_drawing \o << "s" >> >>, << W_dwg >>,
                        << W_cad >>, << W_preciseline, W_drawing \o << "s" >> >>,
                        << W_smartsource, W_drawing >> } ],
       [ doc_type |-> "specification",
         patterns |-> { << W_specification >>, << W_specification \o << "s" >> >>,
                        << W_spec >>, << W_spec \o << "s" >> >> } ],
       [ doc_type |-> "cutsheet", patterns |-> { } ],
       [ doc_type |-> "manual",
         patterns |-> { << W_manual >>, << W_instruction >>, << W_operation >>,
                        << W_maintenance >> } ],
       [ doc_type |-> "warranty",
         patterns |-> { << W_warranty >>, << W_guarantee >> } ] >>

(* the 'cutsheet' patterns ^cs[\s_-], cut.*sheet and cutsheet *)
CutsheetMatch(s) ==
    \/ Len(s) >= 3 /\ SubSeq(s, 1, 2) = Lower(S_CS) /\ s[3] \in { " ", "_", "-" }
    \/ \E i \in 1..Len(s) :
          /\ MatchWordsAt(s, << W_cut >>, i)
          /\ \E j \in (i + Len(W_cut))..Len(s) : MatchWordsAt(s, << W_sheet >>, j)
    \/ Contains(s, W_cut \o W_sheet)

(* s.split(sep, 1)[1] for a separator that occurs in s *)
AfterFirst(s, sep) == SubSeq(s, Find(s, sep) + Len(sep), Len(s))

(* the prefixes of the third branch, as written *)
SecurePrefixes ==
    { P \o << "_" >> : P \in { << "A", "H", "U" >>, << "M", "A", "U" >>, S_RTU, S_FCU,
                               S_WSHP, S_HP, S_FC, S_BC, S_BCU, S_DOAS, S_OAHU, S_CH } }

(* '_'.join(base_name.split('_', 2)[2:]): what follows the second '_' *)
AfterSecondUnderscore(s) == AfterFirst(AfterFirst(s, << "_" >>), << "_" >>)

(* the document type part of the name *)
DocPart(base_name) ==
    IF Contains(base_name, S_Sep) THEN AfterFirst(base_name, S_Sep)
    ELSE IF Contains(base_name, << "_", "-", "_" >>)
    THEN Replace(AfterFirst(base_name, << "_", "-", "_" >>), << "_" >>, << " " >>)
    ELSE IF /\ Contains(base_name, << "_" >>)
            /\ \E P \in SecurePrefixes : StartsWith(base_name, P)
    THEN IF Contains(AfterFirst(base_name, << "_" >>), << "_" >>)
         THEN Replace(AfterSecondUnderscore(base_name), << "_" >>, << " " >>)
         ELSE base_name
    ELSE base_name

(* SimpleTagExtractor.classify_document_type *)
classify_document_type(filename) ==
    LET base_name == Lower(SplitextRoot(filename))
        doc_part == DocPart(base_name)
        Hit(entry) ==
            IF entry.doc_type = "cutsheet" THEN CutsheetMatch(base_name)
            ELSE \E words \in entry.patterns : SearchWords(doc_part, words)
        hits == { k \in 1..Len(doc_type_patterns) : Hit(doc_type_patterns[k]) }
        ext == Lower(SplitextExt(filename))
    IN  IF hits # { }
        THEN doc_type_patterns[CHOOSE k \in hits : \A j \in hits : k <= j].doc_type
        ELSE IF ext \in { Ext_jpg, Ext_jpeg, Ext_png, Ext_gif, Ext_bmp } THEN "drawing"
        ELSE IF ext \in { Ext_pdf, Ext_doc, Ext_docx } THEN "technical_data"
        ELSE "other"

supported_extensions == { Ext_pdf, Ext_doc, Ext_docx, Ext_jpg, Ext_jpeg, Ext_png }

(* SimpleTagExtractor.is_supported_file *)
is_supported_file(filename) == Lower(SplitextExt(filename)) \in supported_extensions

S_CUTSHEETS == << "C", "U", "T", "S", "H", "E", "E", "T", "S" >>

(* equipment_groups[tag][doc_type].append(file_path); the dict of the      *)
(* groups is a sequence of its items [tag, docs] in insertion order, docs  *)
(* a function from the document types of the group to their path lists     *)
GroupAppend(groups, tag, doc_type, file_path) ==
    LET known == { k \in 1..Len(groups) : groups[k].tag = tag }
        k == CHOOSE h \in known : TRUE
        docs == groups[k].docs
        added == [ t \in DOMAIN docs \cup { doc_type } |->
                     IF t = doc_type
                     THEN (IF t \in DOMAIN docs THEN docs[t] ELSE << >>)
                          \o << file_path >>
                     ELSE docs[t] ]
    IN  IF known = { }
        THEN Append(groups, [ tag |-> tag,
                              docs |-> [ t \in { doc_type } |-> << file_path >> ] ])
        ELSE [ groups EXCEPT ![k].docs = added ]

(* one turn of the loop of extract_tags_from_files over file_paths *)
RECURSIVE ExtractLoop(_, _, _)
ExtractLoop(paths, i, groups) ==
    IF i > Len(paths) THEN groups
    ELSE LET filename == paths[i].path
             tag == simple_extract_tag_from_filename(filename)
             doc_type == classify_document_type(filename)
         IN  IF ~paths[i].exists \/ ~is_supported_file(filename)
             THEN ExtractLoop(paths, i + 1, groups)
             ELSE IF tag # None
             THEN ExtractLoop(paths, i + 1,
                              GroupAppend(groups, tag, doc_type, filename))
             ELSE IF doc_type = "cutsheet"
             THEN ExtractLoop(paths, i + 1,
                              GroupAppend(groups, S_CUTSHEETS, doc_type, filename))
             ELSE ExtractLoop(paths, i + 1, groups)

(* SimpleTagExtractor.extract_tags_from_files(self, file_paths) *)
extract_tags_from_files(paths) == ExtractLoop(paths, 1, << >>)

(* a call self.tag_extractor.extract_tags_from_files(...): the method      *)
(* takes one argument besides self, any other number raises TypeError      *)
call_extract_tags_from_files(args) ==
    IF Len(args) # 1 THEN [ raised |-> "TypeError", value |-> << >> ]
    ELSE [ raised |-> "none", value |-> extract_tags_from_files(args[1]) ]

(* ProcessingValidator.validate_equipment_structure *)
validate_equipment_structure(groups) ==
    /\ groups # << >>
    /\ \A k \in 1..Len(groups) : DOMAIN groups[k].docs # { }

(* SimpleProcessor._load_or_extract_structure when tag_mapping_enhanced.json *)
(* holds no structure: how the call ends                                     *)
load_or_extract_structure(paths, original_filename_map) ==
    LET call == call_extract_tags_from_files(<< paths, original_filename_map >>)
    IN  IF call.raised # "none" THEN call.raised
        ELSE IF call.value = << >> THEN "ValueError"
        ELSE IF ~validate_equipment_structure(call.value) THEN "ValueError"
        ELSE "ok"

MaxResolverFiles == 2

S_Readme == << "R", "e", "a", "d", "m", "e", " ", "n", "o", "t", "e", "s" >>
Ext_txt == << ".", "t", "x", "t" >>

ResolverNames ==
    { S_OAHU \o << "-", "1" >> \o S_Sep \o S_TechnicalDataSheet \o Ext_pdf,
      S_WSHP \o << "-", "2" >> \o S_Sep \o S_Drawing \o Ext_pdf,
      N_AHU1_TDS,
      << "A", "H", "U", "_", "1", "_" >> \o Underscored(S_FanCurve) \o Ext_jpg,
      << "a", "h", "u", "-", "1" >> \o S_Sep \o S_Drawing \o Ext_pdf,
      << "A", "H", "U", "-", "0", "1" >> \o S_Sep \o S_ItemSummary \o Ext_docx,
      Tag_AHU1 \o S_Sep \o << "C", "u", "t", " ", "S", "h", "e", "e", "t" >> \o Ext_pdf,
      N_CS_Widget,
      S_Readme \o Ext_pdf,
      Tag_MAU5 \o S_Sep \o S_Warranty \o Ext_docx,
      S_BCU \o << "-", "3" >> \o S_Sep \o << "M", "a", "n", "u", "a", "l" >> \o Ext_pdf,
      Tag_AHU1 \o S_Sep \o S_Readme \o Ext_txt,
      Tag_BOILERA \o S_Sep \o << "S", "p", "e", "c" >> \o Ext_pdf }

(* the paths a caller may pass: the files above, all present, and one path *)
(* of a file that is not there                                             *)
ResolverUniverse ==
    { [ path |-> n, exists |-> TRUE ] : n \in ResolverNames }
        \cup { [ path |-> Tag_MAU5 \o S_Sep \o S_Drawing \o Ext_pdf, exists |-> FALSE ] }

ResolverBatches ==
    { paths \in UNION { [ 1..n -> ResolverUniverse ] : n \in 1..MaxResolverFiles } :
        \A i \in 1..Len(paths), j \in 1..Len(paths) : i # j => paths[i] # paths[j] }

ResolverInit ==
    /\ uploads = { }
    /\ options = NoDict
    /\ persisted = NoDict
    /\ clock = 0
    /\ request = "none"
    /\ NoMerge
    /\ NoAssembly
    /\ NoConversion
    /\ NoPath
    /\ NoFlight
    /\ NoLate
    /\ NoFilter
    /\ file_paths \in ResolverBatches
    /\ equipment_groups = NoDict
    /\ load_result = "none"

(* a caller of extract_tags_from_files(file_paths) *)
ExtractTagsFromFiles ==
    /\ equipment_groups = NoDict
    /\ equipment_groups' = [ groups |-> extract_tags_from_files(file_paths) ]
    /\ UNCHANGED << file_paths, load_result, pathVars, in_flight, converted_pdfs, lateVars, webVars, mergeVars,
                    assemblyVars, conversionVars, tag_order >>

(* SimpleProcessor.process_files up to the end of its step 2 *)
LoadOrExtractStructure ==
    /\ load_result = "none"
    /\ load_result' = load_or_extract_structure(file_paths, NoDict)
    /\ UNCHANGED << file_paths, equipment_groups, pathVars, in_flight, converted_pdfs, lateVars, webVars, mergeVars,
                    assemblyVars, conversionVars, tag_order >>

ResolverNext == ExtractTagsFromFiles \/ LoadOrExtractStructure

ResolverSpec == ResolverInit /\ [][ResolverNext]_vars

(* the tags of the groups that hold the path *)
GroupsOf(groups, path) ==
    { groups[k].tag : k \in { h \in 1..Len(groups) :
        \E t \in DOMAIN groups[h].docs :
            \E n \in 1..Len(groups[h].docs[t]) : groups[h].docs[t][n] = path } }

(* the files of the call that are present and of a supported type *)
Considered ==
    { file_paths[i].path : i \in { j \in 1..Len(file_paths) :
        file_paths[j].exists /\ is_supported_file(file_paths[j].path) } }

(* the equipment-type prefixes whose pattern matches the name *)
PrefixPatterns == { tag_patterns[k] : k \in 1..Len(tag_patterns) } \ { GenericPattern }

MatchingPrefixes(filename) ==
    { P \in PrefixPatterns : PatternSearch(P, SplitextRoot(filename)) # None }

MatchesSpecificAndGeneric(filename) ==
    /\ ~StartsWith(Upper(filename), S_CS)
    /\ \E P \in MatchingPrefixes(filename), Q \in MatchingPrefixes(filename) :
          Len(P) > Len(Q)

(* C21: a filename that matches both a specific longer prefix pattern and  *)
(* a shorter generic one (an OAHU-... name also contains AHU-...) is       *)
(* resolved to the tag of the specific, longer prefix: the file is put in  *)
(* the group of that tag and in no other group.                            *)
C21_SpecificPrefixWins ==
    IsDict(equipment_groups) =>
        \A f \in Considered :
            MatchesSpecificAndGeneric(f) =>
                \E P \in MatchingPrefixes(f) :
                    /\ \A Q \in MatchingPrefixes(f) : Len(Q) <= Len(P)
                    /\ GroupsOf(equipment_groups.groups, f)
                          = { Upper(PatternSearch(P, SplitextRoot(f))) }

(* the tags of a batch with an OAHU and a WSHP file have been extracted *)
C21_OahuAndWshpResolved ==
    /\ IsDict(equipment_groups)
    /\ \E f \in Considered :
          /\ MatchesSpecificAndGeneric(f)
          /\ GroupsOf(equipment_groups.groups, f) = { S_OAHU \o << "-", "1" >> }
    /\ \E f \in Considered :
          /\ MatchesSpecificAndGeneric(f)
          /\ GroupsOf(equipment_groups.groups, f) = { S_WSHP \o << "-", "2" >> }

AllIn(s, cs) == \A i \in 1..Len(s) : s[i] \in cs

(* PREFIX-SUFFIX: upper-case letters, one hyphen, upper-case letters and   *)
(* digits, a numeric suffix without leading zeros                          *)
NormalizedTag(t) ==
    \E k \in 2..(Len(t) - 1) :
        /\ t[k] = "-"
        /\ AllIn(SubSeq(t, 1, k - 1), Alnum \ Digits)
        /\ AllIn(SubSeq(t, k + 1, Len(t)), Alnum)
        /\ (AllIn(SubSeq(t, k + 1, Len(t)), Digits) /\ k + 1 < Len(t))
              => t[k + 1] # "0"

EquipmentTags(groups) ==
    { groups[k].tag : k \in 1..Len(groups) } \ { S_CUTSHEETS }

(* the spellings AHU_1, ahu-1 and AHU-01 of one unit *)
SpelledAhu1(filename) ==
    \E p \in { << "A", "H", "U", "_", "1" >>, << "a", "h", "u", "-", "1" >>,
               << "A", "H", "U", "-", "0", "1" >>, Tag_AHU1 } :
        /\ StartsWith(filename, p)
        /\ filename[Len(p) + 1] \in { " ", "_" }

(* C22: every tag the resolver returns is in the normalized form           *)
(* PREFIX-SUFFIX, upper case, hyphen-separated, leading zeros stripped     *)
(* from a numeric suffix, so the names written AHU_1, ahu-1 and AHU-01     *)
(* are all resolved to the one tag AHU-1.                                  *)
C22_TagsNormalized ==
    IsDict(equipment_groups) =>
        /\ \A t \in EquipmentTags(equipment_groups.groups) : NormalizedTag(t)
        /\ \A f \in Considered :
              SpelledAhu1(f) => GroupsOf(equipment_groups.groups, f) = { Tag_AHU1 }

(* C23: every file whose classification is cutsheet gets no tag from the   *)
(* resolver, even when a tag pattern matches its name, and is therefore    *)
(* placed in the CUTSHEETS group and in no equipment group.                *)
C23_CutsheetsUntagged ==
    IsDict(equipment_groups) =>
        \A f \in Considered :
            classify_document_type(f) = "cutsheet" =>
                /\ simple_extract_tag_from_filename(f) = None
                /\ GroupsOf(equipment_groups.groups, f) = { S_CUTSHEETS }

(* a file that matches no tag pattern and is not classified as a cut sheet *)
Untagged(filename) ==
    /\ simple_extract_tag_from_filename(filename) = None
    /\ classify_document_type(filename) # "cutsheet"

(* C24: a file that matches no tag pattern and is not classified as a cut  *)
(* sheet is left out of the structure without an error being raised, and   *)
(* the presence of such files never makes the batch fail.                  *)
C24_UntaggedLeftOut ==
    /\ IsDict(equipment_groups) =>
          \A f \in Considered :
              Untagged(f) => GroupsOf(equipment_groups.groups, f) = { }
    /\ (load_result # "none" /\ \E f \in Considered : Untagged(f))
          => load_result = "ok"

(***************************************************************************)
(* resolve_converted_path on its own: an item of a structure generated by  *)
(* /extract-tags or by a processing run, the mapping file loaded or not,   *)
(* any of the candidate files existing.                                    *)
(***************************************************************************)
ResolveInputs ==
    UNION { Generated[<< b, o, d >>] :
                b \in AssemblyBatches, o \in AssemblyOptions,
                d \in { TempDirWeb, TempDirExtract } }

ResolveItems ==
    { item \in UNION { { Items(data)[i] : i \in 1..Len(Items(data)) } :
                         data \in ResolveInputs } :
        item.type \in { "document", "cut_sheet" } }

ResolveCandidates(item) ==
    CandidatePaths(item) \cup { os_path_join(TempDirWeb, item.filename) }

ResolveCalls ==
    UNION { [ item : { item }, pdf_mapping : PdfMappings(item),
              present : SUBSET ResolveCandidates(item) ] : item \in ResolveItems }

ResolveInit ==
    /\ uploads = { }
    /\ options = NoDict
    /\ persisted = NoDict
    /\ clock = 0
    /\ request = "none"
    /\ NoMerge
    /\ NoAssembly
    /\ NoConversion
    /\ NoResolver
    /\ NoFlight
    /\ NoLate
    /\ NoFilter
    /\ resolve_call \in ResolveCalls
    /\ resolved = NoDict

(* converted_path = self.resolve_converted_path(item) *)
ResolveConvertedPath ==
    /\ resolved = NoDict
    /\ resolved' =
          [ path |-> resolve_converted_path(resolve_call.item, TempDirWeb,
                                            S_ConvertedPdfs, resolve_call.pdf_mapping,
                                            resolve_call.present) ]
    /\ UNCHANGED << resolve_call, resolverVars, in_flight, converted_pdfs, lateVars, webVars, mergeVars, assemblyVars,
                    conversionVars, tag_order >>

ResolveSpec == ResolveInit /\ [][ResolveConvertedPath]_vars

(* stored converted_path, conversion-mapping entry, default output         *)
(* directory path, path relative to the source directory                   *)
FallbackChain(call) ==
    << Get(call.item, "converted_path", None),
       Get(call.pdf_mapping, call.item.filename, None),
       DefaultPath(S_ConvertedPdfs, call.item.filename),
       RelativePath(TempDirWeb, call.item.filename) >>

FirstExisting(chain, present) ==
    LET existing == { k \in 1..Len(chain) : Truthy(chain[k]) /\ chain[k] \in present }
    IN  IF existing = { } THEN None
        ELSE chain[CHOOSE k \in existing : \A j \in existing : k <= j]

(* C25: for every document and cut_sheet item the converted PDF used at    *)
(* assembly is the first existing file in the order stored converted_path, *)
(* conversion-mapping entry, default output-directory path, path relative  *)
(* to the source directory; a candidate that does not exist is never       *)
(* chosen while a later candidate exists.                                  *)
C25_FirstExistingCandidate ==
    IsDict(resolved) =>
        resolved.path = FirstExisting(FallbackChain(resolve_call), resolve_call.present)

(***************************************************************************)
(* web_interface.py served with threaded=True: the background thread of    *)
(* /upload and a request /update-structure each read                       *)
(* config.tag_mapping_file and later write it, /extract-tags writes it;    *)
(* the steps of different threads interleave.                              *)
(***************************************************************************)
ConcurrentInit ==
    /\ uploads \in AssemblyBatches
    /\ options \in Options
    /\ persisted \in Generated[<< uploads, options, TempDirExtract >>]
    /\ clock = 0
    /\ request = "extract_tags"
    /\ NoMerge
    /\ NoAssembly
    /\ NoConversion
    /\ NoResolver
    /\ NoPath
    /\ NoFlight
    /\ NoLate
    /\ NoFilter

(* run_dst_processing: json.load of the existing structure (lines 423-426) *)
ProcessingReads ==
    /\ in_flight["run_dst_processing"].pc = "idle"
    /\ in_flight' = [ in_flight EXCEPT !["run_dst_processing"] =
                        [ pc |-> "read", existing_data |-> persisted,
                          pdf_structure |-> << >> ] ]
    /\ UNCHANGED << resolverVars, pathVars, converted_pdfs, lateVars, webVars, mergeVars,
                    assemblyVars, conversionVars, tag_order >>

(* run_dst_processing: enhance_tag_mapping and json.dump (lines 440-457) *)
ProcessingWrites ==
    /\ in_flight["run_dst_processing"].pc = "read"
    /\ \E fresh \in Generated[<< uploads, options, TempDirWeb >>] :
          LET existing_user_edits ==
                  existing_user_edits_of(in_flight["run_dst_processing"].existing_data)
          IN  persisted' = IF IsDict(existing_user_edits)
                           THEN merge_user_customizations(fresh, existing_user_edits)
                           ELSE fresh
    /\ request' = "upload"
    /\ in_flight' = [ in_flight EXCEPT !["run_dst_processing"].pc = "done" ]
    /\ UNCHANGED << resolverVars, pathVars, converted_pdfs, lateVars, uploads, options, clock,
                    mergeVars, assemblyVars, conversionVars, tag_order >>

(* update_structure: the posted structure and json.load (lines 1091-1105) *)
UpdateReads ==
    /\ in_flight["update_structure"].pc = "idle"
    /\ IsDict(persisted)
    /\ \E i \in 1..Len(persisted.pdf_structure), edit \in { "include", "title" } :
          LET item == persisted.pdf_structure[i]
              edited == IF edit = "include" THEN ToggleInclude(item) ELSE Retitle(item)
          IN  in_flight' = [ in_flight EXCEPT !["update_structure"] =
                               [ pc |-> "read", existing_data |-> persisted,
                                 pdf_structure |->
                                     [ persisted.pdf_structure EXCEPT ![i] = edited ] ] ]
    /\ UNCHANGED << resolverVars, pathVars, converted_pdfs, lateVars, webVars, mergeVars,
                    assemblyVars, conversionVars, tag_order >>

(* update_structure: the new metadata and json.dump (lines 1107-1120) *)
UpdateWrites ==
    /\ in_flight["update_structure"].pc = "read"
    /\ clock < MaxClock
    /\ persisted' = update_structure(in_flight["update_structure"].existing_data,
                                     in_flight["update_structure"].pdf_structure,
                                     clock + 1)
    /\ clock' = clock + 1
    /\ request' = "update_structure"
    /\ in_flight' = [ in_flight EXCEPT !["update_structure"].pc = "done" ]
    /\ UNCHANGED << resolverVars, pathVars, converted_pdfs, lateVars, uploads, options,
                    mergeVars, assemblyVars, conversionVars, tag_order >>

ConcurrentNext ==
    ProcessingReads \/ ProcessingWrites \/ UpdateReads \/ UpdateWrites

ConcurrentSpec == ConcurrentInit /\ [][ConcurrentNext]_vars

BetweenReadAndWrite == { h \in Handlers : in_flight[h].pc = "read" }

(* C26: the web front end serializes every read-modify-write of the        *)
(* persisted structure file: at most one background processing run or      *)
(* structure update is between its read and its write of the file at any   *)
(* time, so no saved structure is overwritten by a writer that read an     *)
(* older version.                                                          *)
C26_SingleWriter ==
    /\ Cardinality(BetweenReadAndWrite) <= 1
    /\ \A h \in BetweenReadAndWrite : in_flight[h].existing_data = persisted

(***************************************************************************)
(* The conversion step (high_quality_pdf_converter.py) after the structure *)
(* has been generated, from the web front end and from dst_submittals.py.  *)
(* A file with pricing content has its prices on its first page.           *)
(***************************************************************************)
(* has_dollar_sign: the numbers of the pages that a price is found on *)
has_dollar_sign(f) == IF f.dollar THEN { 0 } ELSE { }

(* filter_pages_with_dollar: the path returned and the pages it holds *)
filter_pages_with_dollar(f, pdf_path) ==
    LET pages_with_dollar == has_dollar_sign(f)
    IN  IF pages_with_dollar = { } THEN [ path |-> pdf_path, pages |-> f.pages ]
        ELSE [ path |-> Replace(pdf_path, Ext_pdf, << "_", "f", "i", "l", "t", "e", "r",
                                                     "e", "d" >> \o Ext_pdf),
               pages |-> Cardinality((0..(f.pages - 1)) \ pages_with_dollar) ]

(* convert_and_filter for a file of the directory: None for the path when  *)
(* (None, None) is returned                                                *)
ConvertedDocument(dir, filename, converted) ==
    LET pdf_path == convert_and_filter(filename, converted)
        f == FileNamed(dir, filename)
    IN  IF ~Truthy(pdf_path)
        THEN [ filename |-> filename, path |-> None, pages |-> 0 ]
        ELSE IF EndsWith(filename, Ext_doc) \/ EndsWith(filename, Ext_docx)
        THEN [ filename |-> filename,
               path |-> filter_pages_with_dollar(f, pdf_path).path,
               pages |-> filter_pages_with_dollar(f, pdf_path).pages ]
        ELSE [ filename |-> filename, path |-> pdf_path, pages |-> f.pages ]

FilterBatches == MergeBatches \ { { } }

FilterInit ==
    /\ uploads \in FilterBatches
    /\ options \in Options
    /\ persisted \in Generated[<< uploads, options, TempDirWeb >>]
    /\ clock = 0
    /\ request = "upload"
    /\ NoMerge
    /\ NoAssembly
    /\ NoConversion
    /\ NoResolver
    /\ NoPath
    /\ NoFlight
    /\ NoLate
    /\ converted_pdfs = NoDict

(* what the step made of the files submitted, the converter succeeding on  *)
(* the files of works                                                      *)
ConversionResults(dir, tag_mapping, submitted, works) ==
    [ i \in 1..Len(submitted) |->
        LET e == tag_mapping[submitted[i]]
        IN  [ filename |-> e.filename, tag |-> e.tag,
              converted |-> e.filename \in works,
              pdf |-> ConvertedDocument(dir, e.filename, e.filename \in works),
              source_pages |-> FileNamed(dir, e.filename).pages ] ]

Indices(seq, Keep(_)) ==
    LET kept == { i \in 1..Len(seq) : Keep(seq[i]) }
    IN  [ n \in 1..Cardinality(kept) |->
            CHOOSE i \in kept : Cardinality({ j \in kept : j < i }) = n - 1 ]

(* web_interface.convert_documents_with_progress: the files whose tag is   *)
(* not None                                                                *)
ConvertDocumentsWithProgress ==
    /\ converted_pdfs = NoDict
    /\ \E works \in SUBSET { f.name : f \in SavedDir(uploads) } :
          converted_pdfs' =
              [ flow |-> "web",
                pdfs |-> ConversionResults(SavedDir(uploads), persisted.tag_mapping,
                             Indices(persisted.tag_mapping, LAMBDA e : e.tag # None),
                             works) ]
    /\ UNCHANGED << resolverVars, pathVars, in_flight, lateVars, webVars, mergeVars,
                    assemblyVars, conversionVars, tag_order >>

(* dst_submittals.main, steps 1 and 2: TagExtractor(documents_path),       *)
(* convert_all_documents(tag_mapping) over every entry of the mapping      *)
ConvertAllDocuments ==
    /\ converted_pdfs = NoDict
    /\ \E listing \in Listings(uploads), works \in SUBSET { f.name : f \in uploads } :
          LET tag_mapping == extract_all_tags(uploads, listing, FALSE)
          IN  converted_pdfs' =
                  [ flow |-> "cli",
                    pdfs |-> ConversionResults(uploads, tag_mapping,
                                 Indices(tag_mapping, LAMBDA e : TRUE), works) ]
    /\ UNCHANGED << resolverVars, pathVars, in_flight, lateVars, webVars, mergeVars,
                    assemblyVars, conversionVars, tag_order >>

FilterNext == ConvertDocumentsWithProgress \/ ConvertAllDocuments

FilterSpec == FilterInit /\ [][FilterNext]_vars

(* C27: when the pricing filter is disabled every tagged document of the   *)
(* batch reaches the final PDF with all of its pages: no document is       *)
(* skipped at conversion and no page is removed on account of pricing      *)
(* content (a document the converter fails on is not at issue).            *)
C27_FilterDisabledKeepsPages ==
    (IsDict(converted_pdfs) /\ options.no_pricing_filter) =>
        \A i \in 1..Len(converted_pdfs.pdfs) :
            LET r == converted_pdfs.pdfs[i]
            IN  (Truthy(r.tag) /\ r.converted) =>
                    /\ Truthy(r.pdf.path)
                    /\ r.pdf.pages = r.source_pages

(***************************************************************************)
(* web_interface.py: progress reporting of the background runs.  Each      *)
(* upload registers its correlation id with start_operation and starts a   *)
(* daemon thread; the thread's run reports through update_progress and     *)
(* complete_operation, and the /progress stream of the id forwards the     *)
(* queued events until it has forwarded one of type 'complete'.            *)
(***************************************************************************)
ProgressManager == [ progress_data |-> progress_data, clients |-> clients ]

start_operation(pm, correlation_id) ==
    [ progress_data |->
          SetItem(pm.progress_data, correlation_id,
                  [ step |-> "initializing", completed |-> FALSE,
                    success |-> FALSE ]),
      clients |-> SetItem(pm.clients, correlation_id, << >>) ]

(* Queue.put of an event on the queue of the id, if it has one *)
PutEvent(pm, correlation_id, event) ==
    IF correlation_id \in DOMAIN pm.clients
    THEN SetItem(pm.clients, correlation_id,
                 Append(pm.clients[correlation_id], event))
    ELSE pm.clients

update_progress(pm, correlation_id, step) ==
    IF correlation_id \notin DOMAIN pm.progress_data THEN pm
    ELSE LET data == [ pm.progress_data[correlation_id] EXCEPT !.step = step ]
             updated == [ pm EXCEPT !.progress_data =
                              SetItem(pm.progress_data, correlation_id, data) ]
         IN  [ updated EXCEPT !.clients =
                   PutEvent(updated, correlation_id,
                            [ type |-> "progress", step |-> step ]) ]

complete_operation(pm, correlation_id, success) ==
    IF correlation_id \notin DOMAIN pm.progress_data THEN pm
    ELSE LET step == IF success THEN "completed" ELSE "failed"
             data == [ step |-> step, completed |-> TRUE, success |-> success ]
             updated == [ pm EXCEPT !.progress_data =
                              SetItem(pm.progress_data, correlation_id, data) ]
         IN  [ updated EXCEPT !.clients =
                   PutEvent(updated, correlation_id,
                            [ type |-> "complete", step |-> step ]) ]

(* the progress manager becomes pm *)
Manage(pm) ==
    /\ progress_data' = pm.progress_data
    /\ clients' = pm.clients

(* the steps of run_dst_processing between two progress reports *)
RunSteps == { "tag_extraction", "pdf_conversion", "pdf_assembly" }

(* the finally clause of process_in_background *)
ThreadEnds(id) ==
    /\ processing' = [ processing EXCEPT ![id] = "ended" ]
    /\ active_processes' = active_processes \ { id }

ProgressInit ==
    /\ uploads = { }
    /\ options = NoDict
    /\ persisted = NoDict
    /\ clock = 0
    /\ request = "none"
    /\ NoMerge
    /\ NoAssembly
    /\ NoConversion
    /\ NoResolver
    /\ NoPath
    /\ NoFlight
    /\ NoFilter
    /\ NoProgress
    /\ NoStage
    /\ NoCheckpoint

ProgressFrame ==
    UNCHANGED << resolverVars, pathVars, in_flight, converted_pdfs, stageVars,
                 checkpointVars, webVars, mergeVars, assemblyVars,
                 conversionVars, tag_order >>

(* POST /upload: start_operation, then the background thread is started *)
UploadFiles(id) ==
    /\ serving
    /\ processing[id] = "none"
    /\ Manage(start_operation(ProgressManager, id))
    /\ processing' = [ processing EXCEPT ![id] = "started" ]
    /\ UNCHANGED << active_processes, shutdown_event, serving, streams >>
    /\ ProgressFrame

(* process_in_background enters the active_processes list *)
ProcessInBackground(id) ==
    /\ serving
    /\ processing[id] = "started"
    /\ processing' = [ processing EXCEPT ![id] = "active" ]
    /\ active_processes' = active_processes \cup { id }
    /\ UNCHANGED << progress_data, clients, shutdown_event, serving, streams >>
    /\ ProgressFrame

(* process_in_background: return when the server is shutting down, else    *)
(* run_dst_processing starts and reports 'setup' and 'tag_extraction'      *)
BeginProcessing(id) ==
    /\ serving
    /\ processing[id] = "active"
    /\ IF shutdown_event
       THEN /\ ThreadEnds(id)
            /\ UNCHANGED << progress_data, clients >>
       ELSE /\ Manage(update_progress(
                          update_progress(ProgressManager, id, "setup"),
                          id, "tag_extraction"))
            /\ processing' = [ processing EXCEPT ![id] = "tag_extraction" ]
            /\ UNCHANGED active_processes
    /\ UNCHANGED << shutdown_event, serving, streams >>
    /\ ProgressFrame

(* run_dst_processing after tag extraction: no tag found is reported as a  *)
(* failed operation                                                        *)
TagExtraction(id) ==
    /\ serving
    /\ processing[id] = "tag_extraction"
    /\ \E tag_count \in 0..1 :
          IF tag_count = 0
          THEN /\ Manage(complete_operation(ProgressManager, id, FALSE))
               /\ ThreadEnds(id)
          ELSE /\ Manage(update_progress(ProgressManager, id, "pdf_conversion"))
               /\ processing' = [ processing EXCEPT ![id] = "pdf_conversion" ]
               /\ UNCHANGED active_processes
    /\ UNCHANGED << shutdown_event, serving, streams >>
    /\ ProgressFrame

(* conversion and title pages *)
PdfConversion(id) ==
    /\ serving
    /\ processing[id] = "pdf_conversion"
    /\ Manage(update_progress(
                  update_progress(ProgressManager, id, "title_generation"),
                  id, "pdf_assembly"))
    /\ processing' = [ processing EXCEPT ![id] = "pdf_assembly" ]
    /\ UNCHANGED << active_processes, shutdown_event, serving, streams >>
    /\ ProgressFrame

(* after create_final_pdf: the run returns a failure when the PDF is at    *)
(* neither expected place or is not in the output folder after the move,   *)
(* else it reports 'completed' and completes the operation                 *)
PdfAssembly(id) ==
    /\ serving
    /\ processing[id] = "pdf_assembly"
    /\ \E pdf_in_output_folder \in BOOLEAN :
          IF pdf_in_output_folder
          THEN Manage(complete_operation(
                          update_progress(ProgressManager, id, "completed"),
                          id, TRUE))
          ELSE UNCHANGED << progress_data, clients >>
    /\ ThreadEnds(id)
    /\ UNCHANGED << shutdown_event, serving, streams >>
    /\ ProgressFrame

(* an exception in run_dst_processing: its except clause completes the     *)
(* operation as failed                                                     *)
ProcessingRaises(id) ==
    /\ serving
    /\ processing[id] \in RunSteps
    /\ Manage(complete_operation(ProgressManager, id, FALSE))
    /\ ThreadEnds(id)
    /\ UNCHANGED << shutdown_event, serving, streams >>
    /\ ProgressFrame

(* the steps of the background thread of an upload *)
Background(id) ==
    \/ ProcessInBackground(id)
    \/ BeginProcessing(id)
    \/ TagExtraction(id)
    \/ PdfConversion(id)
    \/ PdfAssembly(id)
    \/ ProcessingRaises(id)

(* complete_operation(id, False, "Server shutting down") for every id of   *)
(* ids, one after the other                                                *)
RECURSIVE CompleteAll(_, _)
CompleteAll(pm, ids) ==
    IF ids = { } THEN pm
    ELSE LET id == CHOOSE i \in ids : TRUE
         IN  CompleteAll(complete_operation(pm, id, FALSE), ids \ { id })

(* cleanup_server, then the process exits *)
cleanup_server ==
    /\ shutdown_event' = TRUE
    /\ Manage(CompleteAll(ProgressManager, DOMAIN clients))
    /\ serving' = FALSE

(* SIGTERM or SIGINT *)
SignalHandler ==
    /\ serving
    /\ cleanup_server
    /\ UNCHANGED << processing, active_processes, streams >>
    /\ ProgressFrame

(* POST /shutdown: with active processes only the event is set *)
Shutdown ==
    /\ serving
    /\ IF active_processes # { }
       THEN /\ shutdown_event' = TRUE
            /\ UNCHANGED << progress_data, clients, serving >>
       ELSE cleanup_server
    /\ UNCHANGED << processing, active_processes, streams >>
    /\ ProgressFrame

(* GET /progress/<id>: the stream forwards the next queued event and       *)
(* closes after one of type 'complete'                                     *)
ProgressStream(id) ==
    /\ serving
    /\ streams[id] # "closed"
    /\ id \in DOMAIN clients
    /\ clients[id] # << >>
    /\ clients' = SetItem(clients, id, Tail(clients[id]))
    /\ streams' = [ streams EXCEPT ![id] =
                       IF Head(clients[id]).type = "complete"
                       THEN "closed" ELSE "open" ]
    /\ UNCHANGED << progress_data, processing, active_processes, shutdown_event,
                    serving >>
    /\ ProgressFrame

ProgressNext ==
    \/ \E id \in Operations : UploadFiles(id)
    \/ \E id \in Operations : ProcessInBackground(id)
    \/ \E id \in Operations : BeginProcessing(id)
    \/ \E id \in Operations : TagExtraction(id)
    \/ \E id \in Operations : PdfConversion(id)
    \/ \E id \in Operations : PdfAssembly(id)
    \/ \E id \in Operations : ProcessingRaises(id)
    \/ \E id \in Operations : ProgressStream(id)
    \/ SignalHandler
    \/ Shutdown

ProgressSpec == ProgressInit /\ [][ProgressNext]_vars

(* every started thread is scheduled, every open stream keeps polling *)
ProgressLiveSpec ==
    /\ ProgressSpec
    /\ \A id \in Operations : WF_vars(Background(id))
    /\ \A id \in Operations : WF_vars(ProgressStream(id))

Registered(id) == id \in DOMAIN progress_data

CompleteSent(id) == Registered(id) /\ progress_data[id].completed

(* C28: every operation registered with start_operation eventually gets a  *)
(* 'complete' event, whichever way its background run ends (success,       *)
(* exception, early failure return, server shutting down).                 *)
C28_EventuallyComplete ==
    \A id \in Operations : Registered(id) ~> CompleteSent(id)

(***************************************************************************)
(* src/pipeline/base.py: PipelineStage.run.  A stage is given by what its   *)
(* three hooks do on the call: validate_input and validate_output answer   *)
(* "True" or "False" or raise, process returns a StageResult or raises.    *)
(***************************************************************************)
StageResult(success, data, error) ==
    [ success |-> success, data |-> data, error |-> error ]

(* process raising instead of returning a StageResult *)
Raises == [ raises |-> TRUE ]

(* PipelineContext.update: dict.update of _data *)
context_update(context, data) ==
    [ context EXCEPT !.data =
          [ k \in DOMAIN context.data \cup DOMAIN data |->
                IF k \in DOMAIN data THEN data[k] ELSE context.data[k] ] ]

add_stage_result(context, stage_name, result) ==
    [ context EXCEPT !.stage_results = SetItem(@, stage_name, result) ]

(* run returns result and leaves the context as context *)
Ran(context, result) == [ context |-> context, result |-> result ]

(* the except clause and the lines after it *)
Crashed(context, stage) ==
    LET result == StageResult(FALSE, NoDict, "crashed")
    IN  Ran(add_stage_result(context, stage.name, result), result)

run(stage, context) ==
    IF stage.validate_input = "raise" THEN Crashed(context, stage)
    ELSE IF stage.validate_input = "False"
    THEN Ran(context, StageResult(FALSE, NoDict, "Invalid input"))
    ELSE IF stage.process = Raises THEN Crashed(context, stage)
    ELSE
    LET processed == stage.process
        updated == IF processed.success /\ processed.data # NoDict
                   THEN context_update(context, processed.data)
                   ELSE context
    IN  IF processed.success /\ stage.validate_output = "raise"
        THEN Crashed(updated, stage)
        ELSE LET result ==
                     IF processed.success /\ stage.validate_output = "False"
                     THEN [ processed EXCEPT !.success = FALSE,
                                             !.error = "Invalid output" ]
                     ELSE processed
             IN  Ran(add_stage_result(updated, stage.name, result), result)

StageNames == { "tag_extraction", "template" }

Verdicts == { "True", "False", "raise" }

(* what process may return or do *)
ProcessOutcomes ==
    { Raises,
      StageResult(FALSE, NoDict, "failed"),
      StageResult(TRUE, NoDict, "None"),
      StageResult(TRUE, [ tag_mapping |-> "AHU-1" ], "None"),
      StageResult(TRUE, [ tag_mapping |-> "AHU-2" ], "None"),
      StageResult(TRUE, [ template_results |-> "results" ], "None") }

Stages ==
    [ name : StageNames, validate_input : Verdicts, process : ProcessOutcomes,
      validate_output : Verdicts ]

(* PipelineContext(initial_data) *)
PipelineContext(initial_data) ==
    [ data |-> initial_data, stage_results |-> NoDict ]

InitialData == { NoDict, [ files |-> "files" ] }

StageInit ==
    /\ uploads = { }
    /\ options = NoDict
    /\ persisted = NoDict
    /\ clock = 0
    /\ request = "none"
    /\ NoMerge
    /\ NoAssembly
    /\ NoConversion
    /\ NoResolver
    /\ NoPath
    /\ NoFlight
    /\ NoFilter
    /\ NoProgress
    /\ NoCheckpoint
    /\ pipeline_context \in { PipelineContext(d) : d \in InitialData }
    /\ stage_return = NoDict

(* result = stage.run(context) *)
StageRun ==
    \E stage \in Stages :
        LET ran == run(stage, pipeline_context)
        IN  /\ pipeline_context' = ran.context
            /\ stage_return' = ran.result
            /\ UNCHANGED << resolverVars, pathVars, in_flight, converted_pdfs,
                            progressVars, checkpointVars, webVars, mergeVars,
                            assemblyVars, conversionVars, tag_order >>

StageSpec == StageInit /\ [][StageRun]_vars

(* C29: a stage run that ends in failure (input validation fails, process  *)
(* reports failure, output validation fails, an exception is raised)       *)
(* leaves the data of the shared context exactly as it was before the run; *)
(* only a successful run adds data.                                        *)
C29_FailedRunKeepsData ==
    [][ (IsDict(stage_return') /\ ~stage_return'.success)
            => pipeline_context'.data = pipeline_context.data ]_vars

(***************************************************************************)
(* _archive_v1/src/pipeline: CheckpointManager and Pipeline.run.  The      *)
(* checkpoint directory is the sequence of its files [name, content] in    *)
(* the order of their modification times; a run of the pipeline is told    *)
(* where to resume from and what the process hook of each stage does.      *)
(***************************************************************************)
S_checkpoint == << "c", "h", "e", "c", "k", "p", "o", "i", "n", "t", "_" >>
S_tag_extraction ==
    << "t", "a", "g", "_", "e", "x", "t", "r", "a", "c", "t", "i", "o", "n" >>
S_template_stage ==
    << "t", "e", "m", "p", "l", "a", "t", "e", "_", "s", "t", "a", "g", "e" >>
Ext_json == << ".", "j", "s", "o", "n" >>

(* str(uuid.uuid4())[:8] *)
CorrelationIds ==
    { << "1", "a", "2", "b", "3", "c", "4", "d" >>,
      << "9", "f", "8", "e", "7", "d", "6", "c" >>,
      << "0", "5", "5", "e", "a", "a", "1", "7" >> }

(* the runs of the pipeline examined *)
MaxRuns == 3

(* datetime.now().strftime('%Y%m%d_%H%M%S') at the time of run number now *)
Timestamp(now) ==
    << "2", "0", "2", "5", "0", "1", "0", "1", "_", "0", "0", "0", "0", "0" >>
        \o << << "0", "1", "2", "3", "4", "5", "6", "7", "8", "9" >>[now + 1] >>

(* keep_last of _cleanup_old_checkpoints *)
keep_last == 3

Names(dir) == [ i \in 1..Len(dir) |-> dir[i].name ]

(* open(filepath, 'w') and json.dump: the file is created or rewritten and *)
(* is then the most recently modified one                                  *)
WriteFile(dir, name, content) ==
    SelectSeq(dir, LAMBDA f : f.name # name)
        \o << [ name |-> name, content |-> content ] >>

(* PipelineContext.to_dict *)
to_dict(context) ==
    [ data |-> context.data,
      stage_results |-> context.stage_results,
      metadata |-> context.metadata ]

(* list_checkpoints(correlation_id), newest timestamp first: the indices   *)
(* of the files                                                            *)
list_checkpoints(dir, correlation_id) ==
    LET found == Glob(Names(dir), S_checkpoint \o correlation_id \o << "_" >>,
                      Ext_json)
    IN  { i \in 1..Len(dir) : \E j \in 1..Len(found) : found[j] = dir[i].name }

_cleanup_old_checkpoints(dir, correlation_id) ==
    LET checkpoints == list_checkpoints(dir, correlation_id)
        Newer(i) == { j \in checkpoints :
                        /\ dir[j].content.stage_name = dir[i].content.stage_name
                        /\ dir[j].content.timestamp > dir[i].content.timestamp }
        removed == { i \in checkpoints : Cardinality(Newer(i)) >= keep_last }
        kept == { i \in 1..Len(dir) : i \notin removed }
        Nth(k) == CHOOSE i \in kept : Cardinality({ j \in kept : j < i }) = k - 1
    IN  [ k \in 1..Cardinality(kept) |-> dir[Nth(k)] ]

save(dir, context, stage_name, correlation_id, now) ==
    LET checkpoint == [ stage_name |-> stage_name,
                        correlation_id |-> correlation_id,
                        timestamp |-> now,
                        context |-> to_dict(context) ]
        filename == S_checkpoint \o correlation_id \o << "_" >> \o stage_name
                        \o << "_" >> \o Timestamp(now) \o Ext_json
    IN  _cleanup_old_checkpoints(WriteFile(dir, filename, checkpoint),
                                 correlation_id)

(* CheckpointManager.load *)
load(dir, checkpoint_path) ==
    LET checkpoint ==
            dir[CHOOSE i \in 1..Len(dir) : dir[i].name = checkpoint_path].content
    IN  [ data |-> checkpoint.context.data,
          stage_results |-> checkpoint.context.stage_results,
          metadata |-> checkpoint.context.metadata ]

find_latest(dir, stage_name, correlation_id) ==
    LET pattern == S_checkpoint
                       \o (IF Truthy(correlation_id)
                           THEN correlation_id \o << "_" >> ELSE << >>)
                       \o (IF Truthy(stage_name)
                           THEN stage_name \o << "_" >> ELSE << >>)
        checkpoint_files == Glob(Names(dir), pattern, Ext_json)
        latest == CHOOSE i \in 1..Len(dir) :
                      /\ \E j \in 1..Len(checkpoint_files) :
                             checkpoint_files[j] = dir[i].name
                      /\ \A k \in (i + 1)..Len(dir) :
                             \A j \in 1..Len(checkpoint_files) :
                                 checkpoint_files[j] # dir[k].name
    IN  IF checkpoint_files = << >> THEN None ELSE dir[latest].name

(* the stages of the pipeline, with what process does in this run *)
PipelineStages(outcomes) ==
    << [ name |-> S_tag_extraction, validate_input |-> "True",
         process |-> outcomes[1], validate_output |-> "True" ],
       [ name |-> S_template_stage, validate_input |-> "True",
         process |-> outcomes[2], validate_output |-> "True" ] >>

PipelineOutcomes ==
    { << tag, template >> :
          tag \in { StageResult(FALSE, NoDict, "failed"),
                    StageResult(TRUE, [ tag_mapping |-> "AHU-1" ], "None"),
                    StageResult(TRUE, [ tag_mapping |-> "AHU-2" ], "None") },
          template \in { StageResult(FALSE, NoDict, "failed"),
                         StageResult(TRUE, [ template_results |-> "results" ],
                                     "None") } }

(* the loop of Pipeline.run from stage i on: a stage with a result is      *)
(* skipped, a checkpoint is saved after a successful stage, the first      *)
(* failure ends the run                                                    *)
RECURSIVE ExecuteStages(_, _, _, _, _)
ExecuteStages(stages, i, context, dir, now) ==
    IF i > Len(stages) THEN [ context |-> context, dir |-> dir ]
    ELSE IF stages[i].name \in DOMAIN context.stage_results
    THEN ExecuteStages(stages, i + 1, context, dir, now)
    ELSE LET ran == run(stages[i], context)
             saved == IF ran.result.success
                      THEN save(dir, ran.context, stages[i].name,
                                ran.context.metadata.correlation_id, now)
                      ELSE dir
         IN  IF ran.result.success
             THEN ExecuteStages(stages, i + 1, ran.context, saved, now)
             ELSE [ context |-> ran.context, dir |-> saved ]

(* Pipeline.run(None, resume_from); fresh is the PipelineContext() made    *)
(* when nothing is resumed                                                 *)
PipelineRun(stages, dir, resume_from, fresh, now) ==
    LET checkpoint_path == IF Truthy(resume_from)
                           THEN find_latest(dir, resume_from, None)
                           ELSE None
        context == IF checkpoint_path # None
                   THEN load(dir, checkpoint_path) ELSE fresh
        named == { i \in 1..Len(stages) : stages[i].name = resume_from }
        start_index == IF named = { } THEN 1
                       ELSE CHOOSE i \in named : \A j \in named : i <= j
        executed == ExecuteStages(stages, start_index, context, dir, now)
    IN  [ resume_from |-> resume_from, checkpoint_path |-> checkpoint_path,
          context |-> context, returned |-> executed.context,
          dir |-> executed.dir ]

CheckpointInit ==
    /\ uploads = { }
    /\ options = NoDict
    /\ persisted = NoDict
    /\ clock = 0
    /\ request = "none"
    /\ NoMerge
    /\ NoAssembly
    /\ NoConversion
    /\ NoResolver
    /\ NoPath
    /\ NoFlight
    /\ NoFilter
    /\ NoProgress
    /\ NoStage
    /\ checkpoint_dir = << >>
    /\ run_context = << >>

(* the correlation ids already generated *)
UsedIds ==
    { run_context[i].returned.metadata.correlation_id : i \in 1..Len(run_context) }

(* pipeline.run(resume_from=...) *)
RunPipeline ==
    /\ Len(run_context) < MaxRuns
    /\ \E resume_from \in { None, S_tag_extraction, S_template_stage },
          outcomes \in PipelineOutcomes,
          id \in CorrelationIds \ UsedIds :
          LET fresh == [ data |-> NoDict, stage_results |-> NoDict,
                         metadata |-> [ correlation_id |-> id ] ]
              ended == PipelineRun(PipelineStages(outcomes), checkpoint_dir,
                                   resume_from, fresh, Len(run_context))
          IN  /\ checkpoint_dir' = ended.dir
              /\ run_context' =
                     Append(run_context,
                            [ resume_from |-> ended.resume_from,
                              checkpoint_path |-> ended.checkpoint_path,
                              context |-> ended.context,
                              returned |-> ended.returned ])
    /\ UNCHANGED << resolverVars, pathVars, in_flight, converted_pdfs,
                    progressVars, stageVars, webVars, mergeVars, assemblyVars,
                    conversionVars, tag_order >>

CheckpointSpec == CheckpointInit /\ [][RunPipeline]_vars

(* the checkpoints saved for a stage, and the most recent of them *)
CheckpointsOf(stage_name, dir) ==
    { i \in 1..Len(dir) : dir[i].content.stage_name = stage_name }

MostRecentOf(stage_name, dir) ==
    dir[CHOOSE i \in CheckpointsOf(stage_name, dir) :
            \A j \in CheckpointsOf(stage_name, dir) : j <= i]

(* C30: once a checkpoint has been saved for a stage S, a run resumed from *)
(* S finds the most recent checkpoint of S with find_latest(stage_name=S)  *)
(* and continues with the context stored in it.                            *)
C30_ResumeFindsLatest ==
    [][ \A S \in { S_tag_extraction, S_template_stage } :
            ( /\ Len(run_context') = Len(run_context) + 1
              /\ run_context'[Len(run_context')].resume_from = S
              /\ CheckpointsOf(S, checkpoint_dir) # { } )
            => LET resumed == run_context'[Len(run_context')]
                   stored == MostRecentOf(S, checkpoint_dir)
               IN  /\ resumed.checkpoint_path = stored.name
                   /\ resumed.context = stored.content.context ]_vars

====
